---- MODULE Spec2Model ----
(***************************************************************************)
(* Ascendia: notebooks, notes, tags and note-tag associations.             *)
(*                                                                         *)
(* The relational store is the variable db (one table per model class,     *)
(* each a function from the row's auto-increment id to the row), now is    *)
(* the wall clock read by auto_now / auto_now_add, and last records the    *)
(* request handled by the latest step together with its response.          *)
(* Every view is an operator from (store, clock, request) to (response,    *)
(* store); the action of a view applies that operator to one request.      *)
(*                                                                         *)
(* The users app has its own state: accounts holds the User and Profile    *)
(* tables, sessions the session of each browser, media the files of the    *)
(* media storage.  Its views are operators on a site record (accounts,     *)
(* the session of the request, media).                                     *)
(***************************************************************************)
EXTENDS Integers, Sequences, FiniteSets, TLC

VARIABLES db, now, last, accounts, sessions, media, inflight

vars == <<db, now, last, accounts, sessions, media, inflight>>

(***************************************************************************)
(* Bounds of the model.                                                    *)
(***************************************************************************)
MaxNotebooks == 2
MaxNotes == 2
MaxTags == 2
MaxNoteTags == 2
MaxRows == 3
MaxTime == 1
MaxProfiles == 3
MaxFiles == 2
MaxUuid == 2
MaxRaceId == 2

(***************************************************************************)
(* Principals.  Anonymous is request.user of a request without an          *)
(* authenticated session.                                                  *)
(***************************************************************************)
Users == {"u1", "u2"}
Anonymous == "anonymous"
Actors == Users \cup {Anonymous}
Methods == {"GET", "POST"}

(***************************************************************************)
(* Text.  A text value is a sequence of characters.                        *)
(***************************************************************************)
Space == " "

RECURSIVE LStrip(_)
LStrip(s) == IF s # <<>> /\ Head(s) = Space THEN LStrip(Tail(s)) ELSE s

RECURSIVE RStrip(_)
RStrip(s) ==
    IF s # <<>> /\ s[Len(s)] = Space THEN RStrip(SubSeq(s, 1, Len(s) - 1)) ELSE s

\* forms.CharField(strip=True).to_python: str.strip()
Strip(s) == RStrip(LStrip(s))

TitleMaxLength == 200
TagNameMaxLength == 50
ColorMaxLength == 7

Cyan == <<"#", "0", "6", "b", "6", "d", "4">>
Mint == <<"#", "1", "0", "b", "9", "8", "1">>
Blue == <<"#", "3", "b", "8", "2", "f", "6">>
Purple == <<"#", "8", "b", "5", "c", "f", "6">>
Pink == <<"#", "e", "c", "4", "8", "9", "9">>
Amber == <<"#", "f", "5", "9", "e", "0", "b">>
Red == <<"#", "e", "f", "4", "4", "4", "4">>
Teal == <<"#", "1", "4", "b", "8", "a", "6">>
COLOR_CHOICES == {Cyan, Mint, Blue, Purple, Pink, Amber, Red, Teal}

(***************************************************************************)
(* Responses.                                                              *)
(***************************************************************************)
Response(status, location, locId, template, msg, json, items) ==
    [status |-> status, location |-> location, locId |-> locId,
     template |-> template, msg |-> msg, json |-> json, items |-> items]

Redirect(location, locId, msg) == Response(302, location, locId, "", msg, <<>>, {})
Render(template, msg, items) == Response(200, "", 0, template, msg, <<>>, items)
JsonResponse(flag) == Response(200, "", 0, "", "", <<TRUE, flag>>, {})
Http404 == Response(404, "", 0, "", "", <<>>, {})
MethodNotAllowed == Response(405, "", 0, "", "", <<>>, {})
ServerError == Response(500, "", 0, "", "", <<>>, {})
\* LoginRequiredMixin.handle_no_permission: redirect to settings.LOGIN_URL
RedirectToLogin == Redirect("users:login", 0, "")

Result(resp, d) == [resp |-> resp, db |-> d]

(***************************************************************************)
(* The store.                                                              *)
(***************************************************************************)
EmptyDb ==
    [notebooks |-> <<>>, notes |-> <<>>, tags |-> <<>>, notetags |-> <<>>,
     seq |-> [notebook |-> 0, note |-> 0, tag |-> 0, notetag |-> 0]]

\* rows of table f without the ids in gone
Without(f, gone) == [i \in DOMAIN f \ gone |-> f[i]]

\* table f with row r stored under id i
With(f, i, r) == [j \in DOMAIN f \cup {i} |-> IF j = i THEN r ELSE f[j]]

(***************************************************************************)
(* Ownership-scoped lookups.                                               *)
(***************************************************************************)
\* the lookup without the user filter
Owned_AnyUser(table, id, u) == id \in DOMAIN table

\* get_object_or_404(Model, id=id, user=user) and
\* Model.objects.filter(user=user) followed by get(pk=id)
Owned(table, id, u) == id \in DOMAIN table /\ table[id].user = u

OwnedIds(table, u) == {i \in DOMAIN table : table[i].user = u}

(***************************************************************************)
(* workspace/forms.py: NotebookForm                                        *)
(***************************************************************************)
NotebookFormValid(f) ==
    /\ Strip(f.title) # <<>>
    /\ Len(Strip(f.title)) <= TitleMaxLength
    /\ f.color \in COLOR_CHOICES

NotebookFormCleaned(f) ==
    [title |-> Strip(f.title), description |-> Strip(f.description),
     color |-> f.color, is_favorite |-> f.is_favorite]

NotebookForms ==
    {[title |-> <<"A">>, description |-> <<>>, color |-> Cyan, is_favorite |-> FALSE],
     [title |-> <<" ", "B">>, description |-> <<"d", " ">>, color |-> Mint,
      is_favorite |-> TRUE],
     [title |-> <<" ">>, description |-> <<"d">>, color |-> Cyan, is_favorite |-> TRUE],
     [title |-> <<"A">>, description |-> <<>>, color |-> <<"#", "0">>,
      is_favorite |-> FALSE]}

(***************************************************************************)
(* workspace/views.py                                                      *)
(***************************************************************************)
WorkspaceHomeView(d, t, u, m) ==
    IF u = Anonymous THEN Result(RedirectToLogin, d)
    ELSE IF m # "GET" THEN Result(MethodNotAllowed, d)
    ELSE Result(Render("workspace/home.html", "", OwnedIds(d.notebooks, u)), d)

NotebookDetailView(d, t, u, m, id) ==
    IF u = Anonymous THEN Result(RedirectToLogin, d)
    ELSE IF m # "GET" THEN Result(MethodNotAllowed, d)
    ELSE IF ~Owned(d.notebooks, id, u) THEN Result(Http404, d)
    ELSE Result(Render("workspace/notebook_detail.html", "",
                       {i \in DOMAIN d.notes : d.notes[i].notebook = id}), d)

\* the owner taken from the submitted data when it names one
NotebookCreateView_SubmittedOwner(d, t, u, m, f) ==
    IF u = Anonymous THEN Result(RedirectToLogin, d)
    ELSE IF m = "GET" THEN Result(Render("workspace/notebook_create.html", "", {}), d)
    ELSE IF ~NotebookFormValid(f)
    THEN Result(Render("workspace/notebook_create.html", "error", {}), d)
    ELSE LET id == d.seq.notebook + 1
             c == NotebookFormCleaned(f)
             row == [user |-> IF "user" \in DOMAIN f THEN f.user ELSE u,
                     title |-> c.title, description |-> c.description,
                     color |-> c.color, is_favorite |-> c.is_favorite,
                     created_at |-> t, updated_at |-> t]
         IN Result(Redirect("workspace:notebook_detail", id, "success"),
                   [d EXCEPT !.notebooks = With(@, id, row), !.seq.notebook = id])

NotebookCreateView(d, t, u, m, f) ==
    IF u = Anonymous THEN Result(RedirectToLogin, d)
    ELSE IF m = "GET" THEN Result(Render("workspace/notebook_create.html", "", {}), d)
    ELSE IF ~NotebookFormValid(f)
    THEN Result(Render("workspace/notebook_create.html", "error", {}), d)
    ELSE LET id == d.seq.notebook + 1
             c == NotebookFormCleaned(f)
             row == [user |-> u, title |-> c.title, description |-> c.description,
                     color |-> c.color, is_favorite |-> c.is_favorite,
                     created_at |-> t, updated_at |-> t]
         IN Result(Redirect("workspace:notebook_detail", id, "success"),
                   [d EXCEPT !.notebooks = With(@, id, row), !.seq.notebook = id])

NotebookUpdateView(d, t, u, m, id, f) ==
    IF u = Anonymous THEN Result(RedirectToLogin, d)
    ELSE IF ~Owned(d.notebooks, id, u) THEN Result(Http404, d)
    ELSE IF m = "GET" THEN Result(Render("workspace/notebook_create.html", "", {}), d)
    ELSE IF ~NotebookFormValid(f)
    THEN Result(Render("workspace/notebook_create.html", "error", {}), d)
    ELSE LET c == NotebookFormCleaned(f)
         IN Result(Redirect("workspace:notebook_detail", id, "success"),
                   [d EXCEPT !.notebooks[id].title = c.title,
                             !.notebooks[id].description = c.description,
                             !.notebooks[id].color = c.color,
                             !.notebooks[id].is_favorite = c.is_favorite,
                             !.notebooks[id].updated_at = t])

\* the notebook row alone is removed
NotebookCascade_NotebookOnly(d, id) == [d EXCEPT !.notebooks = Without(@, {id})]

\* Notebook.delete(): Note.notebook and NoteTag.note are on_delete=CASCADE
NotebookCascade(d, id) ==
    LET goneNotes == {i \in DOMAIN d.notes : d.notes[i].notebook = id}
        goneNoteTags == {i \in DOMAIN d.notetags : d.notetags[i].note \in goneNotes}
    IN [d EXCEPT !.notebooks = Without(@, {id}),
                 !.notes = Without(@, goneNotes),
                 !.notetags = Without(@, goneNoteTags)]

\* get_queryset() returning Notebook.objects.all()
NotebookDeleteView_AllObjects(d, t, u, m, id) ==
    IF u = Anonymous THEN Result(RedirectToLogin, d)
    ELSE IF id \notin DOMAIN d.notebooks THEN Result(Http404, d)
    ELSE IF m = "GET" THEN Result(Render("workspace/notebook_delete.html", "", {}), d)
    ELSE Result(Redirect("workspace:home", 0, "success"), NotebookCascade(d, id))

NotebookDeleteView(d, t, u, m, id) ==
    IF u = Anonymous THEN Result(RedirectToLogin, d)
    ELSE IF ~Owned(d.notebooks, id, u) THEN Result(Http404, d)
    ELSE IF m = "GET" THEN Result(Render("workspace/notebook_delete.html", "", {}), d)
    ELSE Result(Redirect("workspace:home", 0, "success"), NotebookCascade(d, id))

\* the JSON payload built from the value read before the change
NotebookToggleFavoriteView_Stale(d, t, u, m, xhr, id) ==
    IF u = Anonymous THEN Result(RedirectToLogin, d)
    ELSE IF m # "POST" THEN Result(MethodNotAllowed, d)
    ELSE IF ~Owned(d.notebooks, id, u) THEN Result(Http404, d)
    ELSE LET flag == ~d.notebooks[id].is_favorite
             d2 == [d EXCEPT !.notebooks[id].is_favorite = flag,
                             !.notebooks[id].updated_at = t]
         IN IF xhr THEN Result(JsonResponse(d.notebooks[id].is_favorite), d2)
            ELSE Result(Redirect("workspace:notebook_detail", id, "success"), d2)

NotebookToggleFavoriteView(d, t, u, m, xhr, id) ==
    IF u = Anonymous THEN Result(RedirectToLogin, d)
    ELSE IF m # "POST" THEN Result(MethodNotAllowed, d)
    ELSE IF ~Owned(d.notebooks, id, u) THEN Result(Http404, d)
    ELSE LET flag == ~d.notebooks[id].is_favorite
             d2 == [d EXCEPT !.notebooks[id].is_favorite = flag,
                             !.notebooks[id].updated_at = t]
         IN IF xhr THEN Result(JsonResponse(flag), d2)
            ELSE Result(Redirect("workspace:notebook_detail", id, "success"), d2)

(***************************************************************************)
(* notes/views.py: forms generated from fields = [...]                     *)
(***************************************************************************)
\* fields = ['title', 'content'] of Note
NoteFormValid(f) ==
    /\ Strip(f.title) # <<>>
    /\ Len(Strip(f.title)) <= TitleMaxLength

NoteFormCleaned(f) == [title |-> Strip(f.title), content |-> Strip(f.content)]

NoteForms ==
    {[title |-> <<"N">>, content |-> <<>>],
     [title |-> <<"M", " ">>, content |-> <<" ", "c">>],
     [title |-> <<>>, content |-> <<"c">>]}

\* fields = ['name', 'color'] of Tag; unique_together is not validated by the
\* form because user is not one of its fields
TagFormValid(f) ==
    /\ Strip(f.name) # <<>>
    /\ Len(Strip(f.name)) <= TagNameMaxLength
    /\ Strip(f.color) # <<>>
    /\ Len(Strip(f.color)) <= ColorMaxLength

TagFormCleaned(f) == [name |-> Strip(f.name), color |-> Strip(f.color)]

TagForms ==
    {[name |-> <<"x">>, color |-> Cyan],
     [name |-> <<" ", "x">>, color |-> Blue],
     [name |-> <<"y">>, color |-> Mint],
     [name |-> <<" ">>, color |-> Cyan]}

(***************************************************************************)
(* request.POST.get('tag_id'): absent, or the submitted text.              *)
(***************************************************************************)
Digits == <<"0", "1", "2", "3", "4", "5", "6", "7", "8", "9">>

DigitValue(c) == (CHOOSE i \in 1..Len(Digits) : Digits[i] = c) - 1

IsNumber(s) == s # <<>> /\ \A i \in 1..Len(s) : \E j \in 1..Len(Digits) : Digits[j] = s[i]

RECURSIVE ParseInt(_)
ParseInt(s) ==
    IF s = <<>> THEN 0 ELSE 10 * ParseInt(SubSeq(s, 1, Len(s) - 1)) + DigitValue(s[Len(s)])

TagIdParams ==
    {[present |-> TRUE, text |-> <<Digits[i + 1]>>] : i \in 1..MaxTags}
        \cup {[present |-> FALSE, text |-> <<>>], [present |-> TRUE, text |-> <<"x">>]}

(***************************************************************************)
(* notes/views.py                                                          *)
(***************************************************************************)
\* dispatch() looks the notebook up with request.user before the login check
\* of LoginRequiredMixin.dispatch() runs; for AnonymousUser the lookup
\* value is not a number and the query raises TypeError
\* the variant with the parent notebook looked up in form_valid(), after
\* the form has been validated
NoteCreateView_FormFirst(d, t, u, m, notebook_id, f) ==
    IF u = Anonymous THEN Result(RedirectToLogin, d)
    ELSE IF m = "GET" THEN Result(Render("notes/note_create.html", "", {}), d)
    ELSE IF ~NoteFormValid(f) THEN Result(Render("notes/note_create.html", "", {}), d)
    ELSE IF ~Owned(d.notebooks, notebook_id, u) THEN Result(Http404, d)
    ELSE LET id == d.seq.note + 1
             c == NoteFormCleaned(f)
             row == [notebook |-> notebook_id, user |-> u, title |-> c.title,
                     content |-> c.content, created_at |-> t, updated_at |-> t,
                     is_pinned |-> FALSE, order |-> 0]
         IN Result(Redirect("workspace:notebook_detail", notebook_id, "success"),
                   [d EXCEPT !.notes = With(@, id, row), !.seq.note = id])

\* the variant with the parent notebook looked up by id alone
NoteCreateView_AnyNotebook(d, t, u, m, notebook_id, f) ==
    IF u = Anonymous THEN Result(ServerError, d)
    ELSE IF notebook_id \notin DOMAIN d.notebooks THEN Result(Http404, d)
    ELSE IF m = "GET" THEN Result(Render("notes/note_create.html", "", {}), d)
    ELSE IF ~NoteFormValid(f) THEN Result(Render("notes/note_create.html", "", {}), d)
    ELSE LET id == d.seq.note + 1
             c == NoteFormCleaned(f)
             row == [notebook |-> notebook_id, user |-> u, title |-> c.title,
                     content |-> c.content, created_at |-> t, updated_at |-> t,
                     is_pinned |-> FALSE, order |-> 0]
         IN Result(Redirect("workspace:notebook_detail", notebook_id, "success"),
                   [d EXCEPT !.notes = With(@, id, row), !.seq.note = id])

NoteCreateView(d, t, u, m, notebook_id, f) ==
    IF u = Anonymous THEN Result(ServerError, d)
    ELSE IF ~Owned(d.notebooks, notebook_id, u) THEN Result(Http404, d)
    ELSE IF m = "GET" THEN Result(Render("notes/note_create.html", "", {}), d)
    ELSE IF ~NoteFormValid(f) THEN Result(Render("notes/note_create.html", "", {}), d)
    ELSE LET id == d.seq.note + 1
             c == NoteFormCleaned(f)
             row == [notebook |-> notebook_id, user |-> u, title |-> c.title,
                     content |-> c.content, created_at |-> t, updated_at |-> t,
                     is_pinned |-> FALSE, order |-> 0]
         IN Result(Redirect("workspace:notebook_detail", notebook_id, "success"),
                   [d EXCEPT !.notes = With(@, id, row), !.seq.note = id])

NoteDetailView(d, t, u, m, id) ==
    IF u = Anonymous THEN Result(RedirectToLogin, d)
    ELSE IF m # "GET" THEN Result(MethodNotAllowed, d)
    ELSE IF ~Owned(d.notes, id, u) THEN Result(Http404, d)
    ELSE Result(Render("notes/note_detail.html", "",
                       {d.notetags[i].tag : i \in {j \in DOMAIN d.notetags :
                                                      d.notetags[j].note = id}}), d)

NoteUpdateView(d, t, u, m, id, f) ==
    IF u = Anonymous THEN Result(RedirectToLogin, d)
    ELSE IF ~Owned(d.notes, id, u) THEN Result(Http404, d)
    ELSE IF m = "GET" THEN Result(Render("notes/note_create.html", "", {}), d)
    ELSE IF ~NoteFormValid(f) THEN Result(Render("notes/note_create.html", "", {}), d)
    ELSE LET c == NoteFormCleaned(f)
         IN Result(Redirect("notes:note_detail", id, "success"),
                   [d EXCEPT !.notes[id].title = c.title,
                             !.notes[id].content = c.content,
                             !.notes[id].updated_at = t])

\* the tags of the note go with it
NoteCascade_WithTags(d, id) ==
    LET goneNoteTags == {i \in DOMAIN d.notetags : d.notetags[i].note = id}
    IN [d EXCEPT !.notes = Without(@, {id}),
                 !.notetags = Without(@, goneNoteTags),
                 !.tags = Without(@, {d.notetags[i].tag : i \in goneNoteTags})]

\* Note.delete(): NoteTag.note is on_delete=CASCADE
NoteCascade(d, id) ==
    LET goneNoteTags == {i \in DOMAIN d.notetags : d.notetags[i].note = id}
    IN [d EXCEPT !.notes = Without(@, {id}),
                 !.notetags = Without(@, goneNoteTags)]

NoteDeleteView(d, t, u, m, id) ==
    IF u = Anonymous THEN Result(RedirectToLogin, d)
    ELSE IF ~Owned(d.notes, id, u) THEN Result(Http404, d)
    ELSE IF m = "GET" THEN Result(Render("notes/note_delete.html", "", {}), d)
    ELSE Result(Redirect("workspace:notebook_detail", d.notes[id].notebook, "success"),
                NoteCascade(d, id))

\* pinning a note unpins the other notes of its notebook
NoteTogglePinView_Exclusive(d, t, u, m, xhr, id) ==
    IF u = Anonymous THEN Result(RedirectToLogin, d)
    ELSE IF m # "POST" THEN Result(MethodNotAllowed, d)
    ELSE IF ~Owned(d.notes, id, u) THEN Result(Http404, d)
    ELSE LET flag == ~d.notes[id].is_pinned
             d2 == [d EXCEPT !.notes = [i \in DOMAIN @ |->
                        IF i = id THEN [@[i] EXCEPT !.is_pinned = flag, !.updated_at = t]
                        ELSE IF flag /\ @[i].notebook = @[id].notebook
                        THEN [@[i] EXCEPT !.is_pinned = FALSE]
                        ELSE @[i]]]
         IN IF xhr THEN Result(JsonResponse(flag), d2)
            ELSE Result(Redirect("notes:note_detail", id, "success"), d2)

NoteTogglePinView(d, t, u, m, xhr, id) ==
    IF u = Anonymous THEN Result(RedirectToLogin, d)
    ELSE IF m # "POST" THEN Result(MethodNotAllowed, d)
    ELSE IF ~Owned(d.notes, id, u) THEN Result(Http404, d)
    ELSE LET flag == ~d.notes[id].is_pinned
             d2 == [d EXCEPT !.notes[id].is_pinned = flag,
                             !.notes[id].updated_at = t]
         IN IF xhr THEN Result(JsonResponse(flag), d2)
            ELSE Result(Redirect("notes:note_detail", id, "success"), d2)

TagListView(d, t, u, m) ==
    IF u = Anonymous THEN Result(RedirectToLogin, d)
    ELSE IF m # "GET" THEN Result(MethodNotAllowed, d)
    ELSE Result(Render("notes/tag_list.html", "", OwnedIds(d.tags, u)), d)

\* the duplicate check without the user filter
ExistingTag_AnyUser(d, name, u) == {i \in DOMAIN d.tags : d.tags[i].name = name}

\* Tag.objects.filter(name=name, user=user).first()
ExistingTag(d, name, u) == {i \in DOMAIN d.tags : d.tags[i].name = name /\ d.tags[i].user = u}

\* update_or_create: a duplicate name overwrites the color of the existing tag
TagCreateView_UpdateOrCreate(d, t, u, m, f) ==
    IF u = Anonymous THEN Result(RedirectToLogin, d)
    ELSE IF m = "GET" THEN Result(Render("notes/tag_create.html", "", {}), d)
    ELSE IF ~TagFormValid(f) THEN Result(Render("notes/tag_create.html", "", {}), d)
    ELSE LET c == TagFormCleaned(f)
             id == d.seq.tag + 1
             row == [name |-> c.name, user |-> u, color |-> c.color, created_at |-> t]
             old == ExistingTag(d, c.name, u)
         IN IF old # {}
            THEN Result(Redirect("notes:tag_list", 0, "info"),
                        [d EXCEPT !.tags = [i \in DOMAIN @ |->
                                               IF i \in old THEN [@[i] EXCEPT !.color = c.color]
                                               ELSE @[i]]])
            ELSE Result(Redirect("notes:tag_list", 0, "success"),
                        [d EXCEPT !.tags = With(@, id, row), !.seq.tag = id])

TagCreateView(d, t, u, m, f) ==
    IF u = Anonymous THEN Result(RedirectToLogin, d)
    ELSE IF m = "GET" THEN Result(Render("notes/tag_create.html", "", {}), d)
    ELSE IF ~TagFormValid(f) THEN Result(Render("notes/tag_create.html", "", {}), d)
    ELSE LET c == TagFormCleaned(f)
             id == d.seq.tag + 1
             row == [name |-> c.name, user |-> u, color |-> c.color, created_at |-> t]
         IN IF ExistingTag(d, c.name, u) # {}
            THEN Result(Redirect("notes:tag_list", 0, "info"), d)
            ELSE Result(Redirect("notes:tag_list", 0, "success"),
                        [d EXCEPT !.tags = With(@, id, row), !.seq.tag = id])

\* NoteTag.objects.filter(note=note, tag=tag)
Associations(d, note_id, tag_id) ==
    {i \in DOMAIN d.notetags : d.notetags[i].note = note_id /\ d.notetags[i].tag = tag_id}

\* create() in place of get_or_create()
GetOrCreateNoteTag_Create(d, t, note_id, tag_id) ==
    LET id == d.seq.notetag + 1
    IN [d EXCEPT !.notetags = With(@, id, [note |-> note_id, tag |-> tag_id,
                                             added_at |-> t]),
                 !.seq.notetag = id]

\* NoteTag.objects.get_or_create(note=note, tag=tag)
GetOrCreateNoteTag(d, t, note_id, tag_id) ==
    IF Associations(d, note_id, tag_id) # {} THEN d
    ELSE LET id == d.seq.notetag + 1
         IN [d EXCEPT !.notetags = With(@, id, [note |-> note_id, tag |-> tag_id,
                                                  added_at |-> t]),
                      !.seq.notetag = id]

\* the tag looked up by id alone
NoteAddTagView_AnyTag(d, t, u, m, note_id, p) ==
    IF u = Anonymous THEN Result(RedirectToLogin, d)
    ELSE IF m # "POST" THEN Result(MethodNotAllowed, d)
    ELSE IF ~Owned(d.notes, note_id, u) THEN Result(Http404, d)
    ELSE IF ~p.present THEN Result(Http404, d)
    ELSE IF ~IsNumber(p.text) THEN Result(ServerError, d)
    ELSE IF ParseInt(p.text) \notin DOMAIN d.tags THEN Result(Http404, d)
    ELSE Result(Redirect("notes:note_detail", note_id, "success"),
                GetOrCreateNoteTag(d, t, note_id, ParseInt(p.text)))

NoteAddTagView(d, t, u, m, note_id, p) ==
    IF u = Anonymous THEN Result(RedirectToLogin, d)
    ELSE IF m # "POST" THEN Result(MethodNotAllowed, d)
    ELSE IF ~Owned(d.notes, note_id, u) THEN Result(Http404, d)
    ELSE IF ~p.present THEN Result(Http404, d)
    ELSE IF ~IsNumber(p.text) THEN Result(ServerError, d)
    ELSE IF ~Owned(d.tags, ParseInt(p.text), u) THEN Result(Http404, d)
    ELSE Result(Redirect("notes:note_detail", note_id, "success"),
                GetOrCreateNoteTag(d, t, note_id, ParseInt(p.text)))

\* get_object_or_404(NoteTag, note=note, tag=tag).delete()
NoteRemoveTagView_Strict(d, t, u, m, note_id, tag_id) ==
    IF u = Anonymous THEN Result(RedirectToLogin, d)
    ELSE IF m # "POST" THEN Result(MethodNotAllowed, d)
    ELSE IF ~Owned(d.notes, note_id, u) THEN Result(Http404, d)
    ELSE IF ~Owned(d.tags, tag_id, u) THEN Result(Http404, d)
    ELSE IF Associations(d, note_id, tag_id) = {} THEN Result(Http404, d)
    ELSE Result(Redirect("notes:note_detail", note_id, "success"),
                [d EXCEPT !.notetags = Without(@, Associations(d, note_id, tag_id))])

NoteRemoveTagView(d, t, u, m, note_id, tag_id) ==
    IF u = Anonymous THEN Result(RedirectToLogin, d)
    ELSE IF m # "POST" THEN Result(MethodNotAllowed, d)
    ELSE IF ~Owned(d.notes, note_id, u) THEN Result(Http404, d)
    ELSE IF ~Owned(d.tags, tag_id, u) THEN Result(Http404, d)
    ELSE Result(Redirect("notes:note_detail", note_id, "success"),
                [d EXCEPT !.notetags = Without(@, Associations(d, note_id, tag_id))])

(***************************************************************************)
(* users/models.py: the User and Profile tables, sessions, media storage.  *)
(***************************************************************************)
\* browsers, each with its own session cookie
Clients == {"c1"}

\* session['_auth_user_id'] of a session nobody is logged in to
NoUser == 0

\* a session without the '_session_expiry' key
NoExpiry == 0 - 1

RememberMeAge == 1209600

\* an ImageField without a file
NoFile == [username |-> "", uuid |-> 0, ext |-> <<>>, alt |-> 0]

\* the storage name 'avatars/avatar_<username>_<uuid>.<ext>'
FileName(username, uuid, ext) ==
    [username |-> username, uuid |-> uuid, ext |-> ext, alt |-> 0]

\* Storage.get_available_name(): a taken name gets a suffix that is not taken
RECURSIVE AvailableName(_, _)
AvailableName(files, name) ==
    IF name \notin files THEN name
    ELSE AvailableName(files, [name EXCEPT !.alt = @ + 1])

EmptyAccounts ==
    [users |-> <<>>, profiles |-> <<>>, seq |-> [user |-> 0, profile |-> 0]]

AnonymousSession == [user |-> NoUser, expiry |-> NoExpiry]

Site(a, session, files) == [accounts |-> a, session |-> session, media |-> files]

SiteResult(resp, w) == [resp |-> resp, site |-> w]

\* request.user.is_authenticated
IsAuthenticated(w) == w.session.user \in DOMAIN w.accounts.users

\* request.user.username
RequestUsername(w) ==
    IF IsAuthenticated(w) THEN w.accounts.users[w.session.user].username ELSE ""

\* Profile rows of user id uid
ProfilesOf(a, uid) == {i \in DOMAIN a.profiles : a.profiles[i].user = uid}

\* post_save receiver create_user_profile: Profile.objects.create(user=instance)
CreateProfile(a, uid) ==
    LET id == a.seq.profile + 1
    IN [a EXCEPT !.profiles = With(@, id, [user |-> uid, avatar |-> NoFile,
                                             whatsapp |-> <<>>]),
                 !.seq.profile = id]

\* create() on every access in place of get_or_create()
EnsureProfile_Create(a, uid) == CreateProfile(a, uid)

\* Profile.objects.get_or_create(user=request.user)
EnsureProfile(a, uid) == IF ProfilesOf(a, uid) # {} THEN a ELSE CreateProfile(a, uid)

\* the Profile row get_or_create() returns
ProfileId(a, uid) == CHOOSE i \in ProfilesOf(a, uid) : TRUE

\* django.contrib.auth.login(): a session of another user is flushed, any
\* other session keeps its data under a new key
AuthLogin(session, uid) ==
    IF session.user # NoUser /\ session.user # uid
    THEN [user |-> uid, expiry |-> NoExpiry]
    ELSE [session EXCEPT !.user = uid]

(***************************************************************************)
(* users/forms.py: SignUpForm                                              *)
(***************************************************************************)
Positions(s, c) == {i \in 1..Len(s) : s[i] = c}

\* forms.EmailField: stripped, then one "@" after a local part without
\* blanks, then a domain of non-empty labels separated by dots
EmailValid(e) ==
    LET s == Strip(e)
        ats == Positions(s, "@")
    IN /\ ats # {}
       /\ LET at == CHOOSE i \in ats : \A j \in ats : j <= i
              local == SubSeq(s, 1, at - 1)
              domain == SubSeq(s, at + 1, Len(s))
          IN /\ local # <<>>
             /\ Positions(local, "@") = {}
             /\ Positions(local, Space) = {}
             /\ Positions(domain, Space) = {}
             /\ Positions(domain, ".") # {}
             /\ domain[1] # "."
             /\ domain[Len(domain)] # "."
             /\ \A i \in Positions(domain, ".") : i + 1 \notin Positions(domain, ".")

UsernameTaken(a, username) == \E i \in DOMAIN a.users : a.users[i].username = username

\* fields = ('username', 'email', 'password1', 'password2'): all required,
\* username unique, password2 equal to password1
SignUpFormValid(a, f) ==
    /\ f.username # ""
    /\ ~UsernameTaken(a, f.username)
    /\ EmailValid(f.email)
    /\ f.password1 # ""
    /\ f.password2 = f.password1

GoodEmail == <<"a", "@", "b", ".", "c">>
BadEmail == <<"a", "-", "b">>

SignUpForms ==
    {[username |-> n, email |-> e, password1 |-> "p", password2 |-> q] :
        n \in Users \cup {""}, e \in {GoodEmail, <<" ">> \o GoodEmail, BadEmail},
        q \in {"p", "q"}}

\* SignUpForm.save(): the row of the new User, and the Profile the post_save
\* receivers give it
SignUpFormSave(a, f) ==
    LET id == a.seq.user + 1
        row == [username |-> f.username, email |-> Strip(f.email),
                password |-> f.password1]
    IN CreateProfile([a EXCEPT !.users = With(@, id, row), !.seq.user = id], id)

(***************************************************************************)
(* users/views.py: SignUpView                                              *)
(***************************************************************************)
\* dispatch() without the is_authenticated check
SignUpView_NoDispatchCheck(w, m, f) ==
    IF m = "GET" THEN SiteResult(Render("users/signup.html", "", {}), w)
    ELSE IF ~SignUpFormValid(w.accounts, f)
    THEN SiteResult(Render("users/signup.html", "error", {}), w)
    ELSE LET a == SignUpFormSave(w.accounts, f)
         IN SiteResult(Redirect("home", 0, "success"),
                       [w EXCEPT !.accounts = a,
                                 !.session = AuthLogin(@, a.seq.user)])

\* form_valid() without the login() call
SignUpView_NoLogin(w, m, f) ==
    IF IsAuthenticated(w) THEN SiteResult(Redirect("home", 0, ""), w)
    ELSE IF m = "GET" THEN SiteResult(Render("users/signup.html", "", {}), w)
    ELSE IF ~SignUpFormValid(w.accounts, f)
    THEN SiteResult(Render("users/signup.html", "error", {}), w)
    ELSE SiteResult(Redirect("home", 0, "success"),
                    [w EXCEPT !.accounts = SignUpFormSave(@, f)])

\* the user saved before the form is validated
SignUpView_SaveFirst(w, m, f) ==
    IF IsAuthenticated(w) THEN SiteResult(Redirect("home", 0, ""), w)
    ELSE IF m = "GET" THEN SiteResult(Render("users/signup.html", "", {}), w)
    ELSE IF ~SignUpFormValid(w.accounts, f)
    THEN SiteResult(Render("users/signup.html", "error", {}),
                    IF f.username # "" /\ ~UsernameTaken(w.accounts, f.username)
                    THEN [w EXCEPT !.accounts = SignUpFormSave(@, f)] ELSE w)
    ELSE LET a == SignUpFormSave(w.accounts, f)
         IN SiteResult(Redirect("home", 0, "success"),
                       [w EXCEPT !.accounts = a,
                                 !.session = AuthLogin(@, a.seq.user)])

SignUpView(w, m, f) ==
    IF IsAuthenticated(w) THEN SiteResult(Redirect("home", 0, ""), w)
    ELSE IF m = "GET" THEN SiteResult(Render("users/signup.html", "", {}), w)
    ELSE IF ~SignUpFormValid(w.accounts, f)
    THEN SiteResult(Render("users/signup.html", "error", {}), w)
    ELSE LET a == SignUpFormSave(w.accounts, f)
         IN SiteResult(Redirect("home", 0, "success"),
                       [w EXCEPT !.accounts = a,
                                 !.session = AuthLogin(@, a.seq.user)])

(***************************************************************************)
(* users/views_auth.py: CustomLoginView                                    *)
(***************************************************************************)
\* the redirect_authenticated_user option of LoginView, set where the view
\* is routed
redirect_authenticated_user == TRUE

\* AuthenticationForm: the user with this username and this password
Authenticate(a, username, password) ==
    {i \in DOMAIN a.users : a.users[i].username = username
                              /\ a.users[i].password = password}

\* request.POST.get('remember_me'): absent, empty, or the checkbox value
RememberMeParams ==
    {[present |-> FALSE, text |-> ""], [present |-> TRUE, text |-> ""],
     [present |-> TRUE, text |-> "on"]}

LoginForms ==
    {[username |-> n, password |-> q, remember_me |-> r] :
        n \in Users, q \in {"p", "q"}, r \in RememberMeParams}

\* set_expiry() called only when remember_me is sent
SessionExpiry_OnlyWhenRemembered(session, r) ==
    IF r.present /\ r.text # "" THEN [session EXCEPT !.expiry = RememberMeAge]
    ELSE session

\* form_valid(): not remember_me holds for None and for ''
SessionExpiry(session, r) ==
    IF ~(r.present /\ r.text # "") THEN [session EXCEPT !.expiry = 0]
    ELSE [session EXCEPT !.expiry = RememberMeAge]

CustomLoginView(w, m, f) ==
    IF redirect_authenticated_user /\ IsAuthenticated(w)
    THEN SiteResult(Redirect("home", 0, ""), w)
    ELSE IF m = "GET" THEN SiteResult(Render("users/login.html", "", {}), w)
    ELSE IF Authenticate(w.accounts, f.username, f.password) = {}
    THEN SiteResult(Render("users/login.html", "error", {}), w)
    ELSE LET uid == CHOOSE i \in Authenticate(w.accounts, f.username, f.password) : TRUE
         IN SiteResult(Redirect("home", 0, "success"),
                       [w EXCEPT !.session = SessionExpiry(AuthLogin(@, uid),
                                                           f.remember_me)])

\* LogoutView: POST flushes the session and redirects home
LogoutView(w, m) ==
    IF m # "POST" THEN SiteResult(MethodNotAllowed, w)
    ELSE SiteResult(Redirect("home", 0, ""), [w EXCEPT !.session = AnonymousSession])

(***************************************************************************)
(* users/forms.py: UserUpdateForm and ProfileUpdateForm                    *)
(***************************************************************************)
MinWhatsappDigits == 10

DigitCount(s) == Cardinality({i \in 1..Len(s) : \E j \in 1..Len(Digits) : Digits[j] = s[i]})

\* username and email required, the username free or the user's own
UserUpdateFormValid(a, uid, f) ==
    /\ f.username # ""
    /\ \A i \in DOMAIN a.users : a.users[i].username = f.username => i = uid
    /\ EmailValid(f.email)

\* whatsapp optional; a number starts with "+" and has at least 10 digits
ProfileUpdateFormValid(f) ==
    LET wa == Strip(f.whatsapp)
    IN wa # <<>> => (Head(wa) = "+" /\ DigitCount(wa) >= MinWhatsappDigits)

GoodWhatsapp == <<"+", "5", "5", " ", "1", "1", "9", "8", "7", "6", "5", "-", "4">>
ShortWhatsapp == <<"+", "5", "5", " ", "1", "2", "3">>

\* the forms a user named n submits: the username field keeps the name
ProfileForms(n) ==
    {[username |-> n, email |-> GoodEmail, whatsapp |-> wa] :
        wa \in {<<>>, GoodWhatsapp, ShortWhatsapp}}
        \cup {[username |-> n, email |-> BadEmail, whatsapp |-> GoodWhatsapp],
              [username |-> "", email |-> GoodEmail, whatsapp |-> GoodWhatsapp]}

(***************************************************************************)
(* users/views.py: profile_view                                            *)
(***************************************************************************)
profile_view(w, m, f) ==
    IF ~IsAuthenticated(w) THEN SiteResult(RedirectToLogin, w)
    ELSE LET uid == w.session.user
             a == EnsureProfile(w.accounts, uid)
             pid == ProfileId(a, uid)
         IN IF m = "POST" /\ UserUpdateFormValid(a, uid, f) /\ ProfileUpdateFormValid(f)
            THEN SiteResult(Redirect("profile", 0, "success"),
                            [w EXCEPT !.accounts =
                                [a EXCEPT !.users[uid].username = f.username,
                                          !.users[uid].email = Strip(f.email),
                                          !.profiles[pid].whatsapp = Strip(f.whatsapp)]])
            ELSE SiteResult(Render("users/profile.html", "", {}),
                            [w EXCEPT !.accounts = a])

(***************************************************************************)
(* users/models.py: Profile.whatsapp_link.  A link is the token            *)
(* 'https://wa.me/' followed by the characters of the number; NoLink is    *)
(* None.                                                                   *)
(***************************************************************************)
WaMe == "https://wa.me/"

NoLink == <<>>

\* characters outside ASCII for which str.isdigit() is true: ARABIC-INDIC
\* DIGIT THREE and SUPERSCRIPT TWO
UnicodeDigits == {"U+0663", "U+00B2"}

\* str.isdigit() of one character
isdigit(c) == (\E j \in 1..Len(Digits) : Digits[j] = c) \/ c \in UnicodeDigits

IsDigitOrPlus(c) == isdigit(c) \/ c = "+"

NotPlus(c) == c # "+"

\* the '+' characters left in the number
whatsapp_link_KeepPlus(whatsapp) ==
    IF whatsapp # <<>>
    THEN LET cleaned == SelectSeq(whatsapp, IsDigitOrPlus)
         IN <<WaMe>> \o cleaned
    ELSE NoLink

whatsapp_link(whatsapp) ==
    IF whatsapp # <<>>
    THEN LET cleaned == SelectSeq(whatsapp, IsDigitOrPlus)
             number == SelectSeq(cleaned, NotPlus)
         IN <<WaMe>> \o number
    ELSE NoLink

\* '+55 11 98765-4321'
ExampleWhatsapp ==
    <<"+", "5", "5", " ", "1", "1", " ", "9", "8", "7", "6", "5", "-", "4", "3", "2", "1">>

MaxWhatsappLen == 3

WhatsappChars == {"+", "5", " ", "-", "(", "U+0663"}

WhatsappStrings ==
    UNION {[1..n -> WhatsappChars] : n \in 0..MaxWhatsappLen}
        \cup {ExampleWhatsapp, GoodWhatsapp, ShortWhatsapp}

(***************************************************************************)
(* users/views.py: update_avatar.  A data URI is a sequence of tokens:     *)
(* "data:image", "/", the extension, ";base64,", then the characters of    *)
(* the payload.                                                            *)
(***************************************************************************)
Base64Marker == ";base64,"

PngUri == <<"data:image", "/", "png", Base64Marker, "R", "0", "l", "G">>
\* no ';base64,' in the text
PlainUri == <<"data:image", "/", "png", ",", "R", "0", "l", "G">>
\* a payload the decoder rejects
PaddingUri == <<"data:image", "/", "png", Base64Marker, "R", "0", "l">>
TextUri == <<"data:text", "/", "plain", Base64Marker, "R", "0", "l", "G">>

AvatarPosts ==
    {[delete_avatar |-> d, avatar_cropped |-> x] :
        d \in {"", "true"}, x \in {<<>>, PngUri}}
        \cup {[delete_avatar |-> "false", avatar_cropped |-> x] :
                 x \in {PlainUri, PaddingUri, TextUri}}

\* avatar_cropped.split(';base64,') unpacked into two names
SplitsInTwo(x) == Cardinality(Positions(x, Base64Marker)) = 1

FormatPart(x) == SubSeq(x, 1, (CHOOSE i \in Positions(x, Base64Marker) : TRUE) - 1)

PayloadPart(x) == SubSeq(x, (CHOOSE i \in Positions(x, Base64Marker) : TRUE) + 1, Len(x))

\* format.split('/')[-1]
Extension(fmt) ==
    LET slashes == Positions(fmt, "/")
    IN IF slashes = {} THEN fmt
       ELSE SubSeq(fmt, (CHOOSE i \in slashes : \A j \in slashes : j <= i) + 1, Len(fmt))

\* base64.b64decode(): the padded length is a multiple of four
Base64Decodes(payload) == Len(payload) % 4 = 0

JsonStatus(status, success, avatar) ==
    Response(status, "", 0, "", "", <<success, avatar>>, {})

\* the new file saved without deleting the previous one
update_avatar_KeepOld(w, m, p, uuid) ==
    IF ~IsAuthenticated(w) THEN SiteResult(RedirectToLogin, w)
    ELSE IF m # "POST" THEN SiteResult(JsonStatus(405, FALSE, NoFile), w)
    ELSE LET uid == w.session.user
             a == EnsureProfile(w.accounts, uid)
             pid == ProfileId(a, uid)
             old == a.profiles[pid].avatar
             w1 == [w EXCEPT !.accounts = a]
         IN IF p.delete_avatar = "true"
            THEN IF old # NoFile
                 THEN SiteResult(JsonStatus(200, TRUE, NoFile),
                                 [w1 EXCEPT !.media = @ \ {old},
                                            !.accounts.profiles[pid].avatar = NoFile])
                 ELSE SiteResult(JsonStatus(200, TRUE, NoFile), w1)
            ELSE IF p.avatar_cropped # <<>> /\ Head(p.avatar_cropped) = "data:image"
            THEN IF ~SplitsInTwo(p.avatar_cropped)
                 THEN SiteResult(JsonStatus(500, FALSE, NoFile), w1)
                 ELSE IF ~Base64Decodes(PayloadPart(p.avatar_cropped))
                 THEN SiteResult(JsonStatus(500, FALSE, NoFile), w1)
                 ELSE LET ext == Extension(FormatPart(p.avatar_cropped))
                          name == AvailableName(w1.media,
                                      FileName(a.users[uid].username, uuid, ext))
                      IN SiteResult(JsonStatus(200, TRUE, name),
                                    [w1 EXCEPT !.media = @ \cup {name},
                                               !.accounts.profiles[pid].avatar = name])
            ELSE SiteResult(JsonStatus(400, FALSE, NoFile), w1)

\* the upload branch without the try block: a failure leaves the view as an
\* unhandled exception
update_avatar_NoTry(w, m, p, uuid) ==
    IF ~IsAuthenticated(w) THEN SiteResult(RedirectToLogin, w)
    ELSE IF m # "POST" THEN SiteResult(JsonStatus(405, FALSE, NoFile), w)
    ELSE LET uid == w.session.user
             a == EnsureProfile(w.accounts, uid)
             pid == ProfileId(a, uid)
             old == a.profiles[pid].avatar
             w1 == [w EXCEPT !.accounts = a]
             w2 == IF old # NoFile THEN [w1 EXCEPT !.media = @ \ {old}] ELSE w1
         IN IF p.delete_avatar = "true"
            THEN IF old # NoFile
                 THEN SiteResult(JsonStatus(200, TRUE, NoFile),
                                 [w2 EXCEPT !.accounts.profiles[pid].avatar = NoFile])
                 ELSE SiteResult(JsonStatus(200, TRUE, NoFile), w1)
            ELSE IF p.avatar_cropped # <<>> /\ Head(p.avatar_cropped) = "data:image"
            THEN IF ~SplitsInTwo(p.avatar_cropped)
                 THEN SiteResult(ServerError, w2)
                 ELSE IF ~Base64Decodes(PayloadPart(p.avatar_cropped))
                 THEN SiteResult(ServerError, w2)
                 ELSE LET ext == Extension(FormatPart(p.avatar_cropped))
                          name == AvailableName(w2.media,
                                      FileName(a.users[uid].username, uuid, ext))
                      IN SiteResult(JsonStatus(200, TRUE, name),
                                    [w2 EXCEPT !.media = @ \cup {name},
                                               !.accounts.profiles[pid].avatar = name])
            ELSE SiteResult(JsonStatus(400, FALSE, NoFile), w1)

update_avatar(w, m, p, uuid) ==
    IF ~IsAuthenticated(w) THEN SiteResult(RedirectToLogin, w)
    ELSE IF m # "POST" THEN SiteResult(JsonStatus(405, FALSE, NoFile), w)
    ELSE LET uid == w.session.user
             a == EnsureProfile(w.accounts, uid)
             pid == ProfileId(a, uid)
             old == a.profiles[pid].avatar
             w1 == [w EXCEPT !.accounts = a]
             \* profile.avatar.delete(save=False): the file is gone, the row
             \* is not written
             w2 == IF old # NoFile THEN [w1 EXCEPT !.media = @ \ {old}] ELSE w1
         IN IF p.delete_avatar = "true"
            THEN IF old # NoFile
                 THEN SiteResult(JsonStatus(200, TRUE, NoFile),
                                 [w2 EXCEPT !.accounts.profiles[pid].avatar = NoFile])
                 ELSE SiteResult(JsonStatus(200, TRUE, NoFile), w1)
            ELSE IF p.avatar_cropped # <<>> /\ Head(p.avatar_cropped) = "data:image"
            THEN IF ~SplitsInTwo(p.avatar_cropped)
                 THEN SiteResult(JsonStatus(500, FALSE, NoFile), w2)
                 ELSE IF ~Base64Decodes(PayloadPart(p.avatar_cropped))
                 THEN SiteResult(JsonStatus(500, FALSE, NoFile), w2)
                 ELSE LET ext == Extension(FormatPart(p.avatar_cropped))
                          name == AvailableName(w2.media,
                                      FileName(a.users[uid].username, uuid, ext))
                      IN SiteResult(JsonStatus(200, TRUE, name),
                                    [w2 EXCEPT !.media = @ \cup {name},
                                               !.accounts.profiles[pid].avatar = name])
            ELSE SiteResult(JsonStatus(400, FALSE, NoFile), w1)

(***************************************************************************)
(* users/management/commands/create_profiles.py                            *)
(***************************************************************************)
RECURSIVE CreateMissingProfiles(_, _)
CreateMissingProfiles(a, todo) ==
    IF todo = {} THEN a
    ELSE LET uid == CHOOSE i \in todo : \A j \in todo : i <= j
         IN CreateMissingProfiles(IF ProfilesOf(a, uid) = {} THEN CreateProfile(a, uid)
                                  ELSE a,
                                  todo \ {uid})

\* Command.handle(): for user in User.objects.all()
create_profiles(a) == CreateMissingProfiles(a, DOMAIN a.users)

(***************************************************************************)
(* Requests in flight.  The views run in autocommit mode: no view opens a  *)
(* transaction or locks a row, so each query of a request is one atomic    *)
(* step on the store and the queries of two requests served by two         *)
(* workers interleave.  A request in flight keeps the instance it loaded   *)
(* (read), the instance as it is in memory (obj), the ids its delete has   *)
(* collected (kids), its response, and the rank of its write among the     *)
(* writes of the requests in flight (at).                                  *)
(***************************************************************************)
Workers == {"w1", "w2"}

NoRow == [absent |-> TRUE]

NoResponse == Response(0, "", 0, "", "", <<>>, {})

Request(op, pc, u, id, xhr, read, obj, resp) ==
    [op |-> op, pc |-> pc, user |-> u, id |-> id, xhr |-> xhr, read |-> read,
     obj |-> obj, kids |-> {}, resp |-> resp, at |-> 0]

NoRequest == Request("none", "idle", Anonymous, 0, FALSE, NoRow, NoRow, NoResponse)

Loaded(op, u, id, xhr, read, obj) == Request(op, "loaded", u, id, xhr, read, obj, NoResponse)

Answered(op, u, id, xhr, resp) == Request(op, "done", u, id, xhr, NoRow, NoRow, resp)

\* the request q after its write: the instance as saved and the response
Written(q, obj, resp) == [q EXCEPT !.pc = "done", !.obj = obj, !.resp = resp]

Step(q, d) == [req |-> q, db |-> d]

\* Note.notebook is a ForeignKey with a database constraint: no Note row
\* references a missing Notebook
ForeignKeysHold_Unchecked(d, model, row) == TRUE

ForeignKeysHold(d, model, row) == model = "notes" => row.notebook \in DOMAIN d.notebooks

\* Tag.Meta.unique_together = ['name', 'user']
UniqueTogetherHolds(d, model, id, row) ==
    model = "tags" =>
        \A i \in DOMAIN d.tags \ {id} :
            ~(d.tags[i].name = row.name /\ d.tags[i].user = row.user)

\* Model.save() of an instance that has a primary key, without update_fields:
\* UPDATE of every column WHERE id = pk, and INSERT of the row when the
\* UPDATE matched none; ok is FALSE for an IntegrityError
save(d, model, id, row) ==
    IF ForeignKeysHold(d, model, row) /\ UniqueTogetherHolds(d, model, id, row)
    THEN [ok |-> TRUE, db |-> [d EXCEPT ![model] = With(@, id, row)]]
    ELSE [ok |-> FALSE, db |-> d]

SequenceOf(model) ==
    CASE model = "notebooks" -> "notebook"
      [] model = "notes" -> "note"
      [] model = "tags" -> "tag"

\* Model.save() of a new instance: INSERT under the next id of the table
create(d, model, row) ==
    LET id == d.seq[SequenceOf(model)] + 1
    IN IF ForeignKeysHold(d, model, row) /\ UniqueTogetherHolds(d, model, id, row)
       THEN [ok |-> TRUE, id |-> id,
             db |-> [d EXCEPT ![model] = With(@, id, row),
                              !.seq[SequenceOf(model)] = id]]
       ELSE [ok |-> FALSE, id |-> 0, db |-> d]

\* get_object_or_404(Notebook, id=notebook_id, user=request.user)
ToggleFavoriteRead(d, u, id, xhr) ==
    IF ~Owned(d.notebooks, id, u)
    THEN Answered("notebook_toggle_favorite", u, id, xhr, Http404)
    ELSE Loaded("notebook_toggle_favorite", u, id, xhr, d.notebooks[id], d.notebooks[id])

\* the flag taken from the row as it is stored when the write runs
ToggleFavoriteWrite_Reread(d, t, q) ==
    IF q.id \notin DOMAIN d.notebooks
    THEN Step(Written(q, q.obj, ServerError), d)
    ELSE LET row == [d.notebooks[q.id] EXCEPT !.is_favorite = ~@, !.updated_at = t]
             s == save(d, "notebooks", q.id, row)
         IN Step(Written(q, row,
                         IF q.xhr THEN JsonResponse(row.is_favorite)
                         ELSE Redirect("workspace:notebook_detail", q.id, "success")),
                 s.db)

\* notebook.is_favorite = not notebook.is_favorite; notebook.save()
ToggleFavoriteWrite(d, t, q) ==
    LET row == [q.obj EXCEPT !.is_favorite = ~@, !.updated_at = t]
        s == save(d, "notebooks", q.id, row)
    IN IF s.ok
       THEN Step(Written(q, row,
                         IF q.xhr THEN JsonResponse(row.is_favorite)
                         ELSE Redirect("workspace:notebook_detail", q.id, "success")),
                 s.db)
       ELSE Step(Written(q, q.obj, ServerError), d)

\* get_object_or_404(Note, id=note_id, user=request.user)
TogglePinRead(d, u, id, xhr) ==
    IF ~Owned(d.notes, id, u)
    THEN Answered("note_toggle_pin", u, id, xhr, Http404)
    ELSE Loaded("note_toggle_pin", u, id, xhr, d.notes[id], d.notes[id])

\* note.is_pinned = not note.is_pinned; note.save()
TogglePinWrite(d, t, q) ==
    LET row == [q.obj EXCEPT !.is_pinned = ~@, !.updated_at = t]
        s == save(d, "notes", q.id, row)
    IN IF s.ok
       THEN Step(Written(q, row,
                         IF q.xhr THEN JsonResponse(row.is_pinned)
                         ELSE Redirect("notes:note_detail", q.id, "success")),
                 s.db)
       ELSE Step(Written(q, q.obj, ServerError), d)

\* NotebookUpdateView.post(): get_object(), then the form is validated and
\* its cleaned data is put on the instance in memory
NotebookEditRead(d, u, id, f) ==
    IF ~Owned(d.notebooks, id, u)
    THEN Answered("notebook_edit", u, id, FALSE, Http404)
    ELSE IF ~NotebookFormValid(f)
    THEN Answered("notebook_edit", u, id, FALSE,
                  Render("workspace/notebook_create.html", "error", {}))
    ELSE LET c == NotebookFormCleaned(f)
         IN Loaded("notebook_edit", u, id, FALSE, d.notebooks[id],
                   [d.notebooks[id] EXCEPT !.title = c.title,
                                           !.description = c.description,
                                           !.color = c.color,
                                           !.is_favorite = c.is_favorite])

\* NotebookUpdateView.form_valid(): form.save()
NotebookEditWrite(d, t, q) ==
    LET row == [q.obj EXCEPT !.updated_at = t]
        s == save(d, "notebooks", q.id, row)
    IN IF s.ok
       THEN Step(Written(q, row, Redirect("workspace:notebook_detail", q.id, "success")),
                 s.db)
       ELSE Step(Written(q, q.obj, ServerError), d)

\* NoteUpdateView.post(): get_object(), then the form
NoteEditRead(d, u, id, f) ==
    IF ~Owned(d.notes, id, u)
    THEN Answered("note_edit", u, id, FALSE, Http404)
    ELSE IF ~NoteFormValid(f)
    THEN Answered("note_edit", u, id, FALSE, Render("notes/note_create.html", "", {}))
    ELSE LET c == NoteFormCleaned(f)
         IN Loaded("note_edit", u, id, FALSE, d.notes[id],
                   [d.notes[id] EXCEPT !.title = c.title, !.content = c.content])

\* NoteUpdateView.form_valid(): form.save()
NoteEditWrite(d, t, q) ==
    LET row == [q.obj EXCEPT !.updated_at = t]
        s == save(d, "notes", q.id, row)
    IN IF s.ok
       THEN Step(Written(q, row, Redirect("notes:note_detail", q.id, "success")), s.db)
       ELSE Step(Written(q, q.obj, ServerError), d)

\* NotebookDeleteView.post(): get_object()
NotebookDeleteRead(d, u, id) ==
    IF ~Owned(d.notebooks, id, u)
    THEN Answered("notebook_delete", u, id, FALSE, Http404)
    ELSE Loaded("notebook_delete", u, id, FALSE, d.notebooks[id], d.notebooks[id])

\* Notebook.delete(), first part: the collector selects the notes of the
\* notebook
NotebookDeleteCollect(d, q) ==
    [q EXCEPT !.pc = "collected",
              !.kids = {i \in DOMAIN d.notes : d.notes[i].notebook = q.id}]

\* Notebook.delete(), second part, in one transaction: the associations of
\* the collected notes, the collected notes and the notebook are deleted; a
\* note that still references the notebook makes it fail
NotebookDeleteWrite(d, q) ==
    LET left == {i \in DOMAIN d.notes \ q.kids : d.notes[i].notebook = q.id}
        goneNoteTags == {i \in DOMAIN d.notetags : d.notetags[i].note \in q.kids}
    IN IF left # {}
       THEN Step(Written(q, q.obj, ServerError), d)
       ELSE Step(Written(q, q.obj, Redirect("workspace:home", 0, "success")),
                 [d EXCEPT !.notebooks = Without(@, {q.id}),
                           !.notes = Without(@, q.kids),
                           !.notetags = Without(@, goneNoteTags)])

\* NoteDeleteView.post(): get_object()
NoteDeleteRead(d, u, id) ==
    IF ~Owned(d.notes, id, u)
    THEN Answered("note_delete", u, id, FALSE, Http404)
    ELSE Loaded("note_delete", u, id, FALSE, d.notes[id], d.notes[id])

\* Note.delete(): the associations of the note and the note are deleted
NoteDeleteWrite(d, q) ==
    Step(Written(q, q.obj,
                 Redirect("workspace:notebook_detail", q.obj.notebook, "success")),
         NoteCascade(d, q.id))

\* NoteCreateView.dispatch(): the notebook lookup; then the form is
\* validated and form_valid() puts notebook and user on the new instance
NoteCreateRead(d, t, u, notebook_id, f) ==
    IF ~Owned(d.notebooks, notebook_id, u)
    THEN Answered("note_create", u, notebook_id, FALSE, Http404)
    ELSE IF ~NoteFormValid(f)
    THEN Answered("note_create", u, notebook_id, FALSE,
                  Render("notes/note_create.html", "", {}))
    ELSE LET c == NoteFormCleaned(f)
         IN Loaded("note_create", u, notebook_id, FALSE, d.notebooks[notebook_id],
                   [notebook |-> notebook_id, user |-> u, title |-> c.title,
                    content |-> c.content, created_at |-> t, updated_at |-> t,
                    is_pinned |-> FALSE, order |-> 0])

\* NoteCreateView.form_valid(): super().form_valid(form) saves the new Note
NoteCreateWrite(d, t, q) ==
    LET row == [q.obj EXCEPT !.created_at = t, !.updated_at = t]
        s == create(d, "notes", row)
    IN IF s.ok
       THEN Step(Written(q, row, Redirect("workspace:notebook_detail", q.id, "success")),
                 s.db)
       ELSE Step(Written(q, q.obj, ServerError), d)

\* TagCreateView.form_valid(): the duplicate check
TagCreateRead(d, t, u, f) ==
    IF ~TagFormValid(f)
    THEN Answered("tag_create", u, 0, FALSE, Render("notes/tag_create.html", "", {}))
    ELSE LET c == TagFormCleaned(f)
         IN IF ExistingTag(d, c.name, u) # {}
            THEN Answered("tag_create", u, 0, FALSE, Redirect("notes:tag_list", 0, "info"))
            ELSE Loaded("tag_create", u, 0, FALSE, NoRow,
                        [name |-> c.name, user |-> u, color |-> c.color,
                         created_at |-> t])

\* TagCreateView.form_valid(): super().form_valid(form) saves the new Tag
TagCreateWrite(d, t, q) ==
    LET row == [q.obj EXCEPT !.created_at = t]
        s == create(d, "tags", row)
    IN IF s.ok
       THEN Step(Written(q, row, Redirect("notes:tag_list", 0, "success")), s.db)
       ELSE Step(Written(q, q.obj, ServerError), d)

(***************************************************************************)
(* Requests of the users app in flight: profile_view and update_avatar of  *)
(* one logged-in user served by two workers.  Each query and each storage  *)
(* call is a step.  Such a request also keeps the id of the Profile it     *)
(* loaded (pid), the submitted data (form), the name of the file it is     *)
(* going to save (file) and the Profile instance the post_save receiver    *)
(* loaded (fresh).                                                         *)
(***************************************************************************)
SiteRequest(op, pc, uid, pid, form, read, obj, resp) ==
    [op |-> op, pc |-> pc, user |-> uid, id |-> uid, xhr |-> FALSE, read |-> read,
     obj |-> obj, kids |-> {}, resp |-> resp, at |-> 0,
     pid |-> pid, form |-> form, file |-> NoFile, fresh |-> NoRow]

SiteStep(q, w) == [req |-> q, site |-> w]

\* profile_view, POST: get_or_create(), then both forms are validated
ProfileUpdateRead(w, f) ==
    LET uid == w.session.user
        a == EnsureProfile(w.accounts, uid)
        pid == ProfileId(a, uid)
        w1 == [w EXCEPT !.accounts = a]
    IN IF ~(UserUpdateFormValid(a, uid, f) /\ ProfileUpdateFormValid(f))
       THEN SiteStep(SiteRequest("profile", "done", uid, pid, f, NoRow, NoRow,
                                 Render("users/profile.html", "", {})), w1)
       ELSE SiteStep(SiteRequest("profile", "loaded", uid, pid, f, a.profiles[pid],
                                 a.profiles[pid], NoResponse), w1)

\* user_form.save(): the User row is written; the post_save receiver
\* save_user_profile then reads instance.profile from the database
ProfileUpdateSignalLoad(w, q) ==
    SiteStep([q EXCEPT !.pc = "signal",
                       !.fresh = IF q.pid \in DOMAIN w.accounts.profiles
                                 THEN w.accounts.profiles[q.pid] ELSE NoRow],
             [w EXCEPT !.accounts.users[q.user].username = q.form.username,
                       !.accounts.users[q.user].email = Strip(q.form.email)])

\* save_user_profile: instance.profile.save()
ProfileUpdateSignalSave(w, q) ==
    SiteStep([q EXCEPT !.pc = "resaved"],
             IF q.fresh = NoRow THEN w
             ELSE [w EXCEPT !.accounts.profiles = With(@, q.pid, q.fresh)])

\* profile.whatsapp = cleaned_data.get('whatsapp'); profile.save()
ProfileUpdateWrite(w, q) ==
    LET row == [q.obj EXCEPT !.whatsapp = Strip(q.form.whatsapp)]
    IN SiteStep([q EXCEPT !.pc = "done", !.obj = row,
                          !.resp = Redirect("profile", 0, "success")],
                [w EXCEPT !.accounts.profiles = With(@, q.pid, row)])

\* update_avatar, POST: get_or_create() and the choice of the branch
AvatarRead(w, p, uuid) ==
    LET uid == w.session.user
        a == EnsureProfile(w.accounts, uid)
        pid == ProfileId(a, uid)
        row == a.profiles[pid]
        w1 == [w EXCEPT !.accounts = a]
        data == [post |-> p, uuid |-> uuid]
    IN IF p.delete_avatar = "true"
       THEN IF row.avatar = NoFile
            THEN SiteStep(SiteRequest("avatar_delete", "done", uid, pid, data, row, row,
                                      JsonStatus(200, TRUE, NoFile)), w1)
            ELSE SiteStep(SiteRequest("avatar_delete", "loaded", uid, pid, data, row, row,
                                      NoResponse), w1)
       ELSE IF p.avatar_cropped # <<>> /\ Head(p.avatar_cropped) = "data:image"
       THEN SiteStep(SiteRequest("avatar_upload", "loaded", uid, pid, data, row, row,
                                 NoResponse), w1)
       ELSE SiteStep(SiteRequest("avatar_upload", "done", uid, pid, data, row, row,
                                 JsonStatus(400, FALSE, NoFile)), w1)

\* profile.avatar.delete(save=False): the file the loaded instance names is
\* removed from storage and the field of the instance is cleared; on the
\* upload branch the value is then split and decoded and the file name made
AvatarUnlink(w, q) ==
    LET old == q.obj.avatar
        w1 == IF old # NoFile THEN [w EXCEPT !.media = @ \ {old}] ELSE w
        x == q.form.post.avatar_cropped
        cleared == [q EXCEPT !.obj.avatar = NoFile]
    IN IF q.op = "avatar_delete"
       THEN SiteStep([cleared EXCEPT !.pc = "stored"], w1)
       ELSE IF ~SplitsInTwo(x) \/ ~Base64Decodes(PayloadPart(x))
       THEN SiteStep([cleared EXCEPT !.pc = "done",
                                     !.resp = JsonStatus(500, FALSE, NoFile)], w1)
       ELSE SiteStep([cleared EXCEPT !.pc = "decoded",
                                     !.file = FileName(w.accounts.users[q.user].username,
                                                       q.form.uuid,
                                                       Extension(FormatPart(x)))],
                     w1)

\* profile.avatar.save(file_name, data, save=True), first part: the storage
\* saves the file under an available name
AvatarStore(w, q) ==
    LET name == AvailableName(w.media, q.file)
    IN SiteStep([q EXCEPT !.pc = "stored", !.obj.avatar = name, !.file = name],
                [w EXCEPT !.media = @ \cup {name}])

\* profile.save(): every column of the instance is written
AvatarWrite(w, q) ==
    SiteStep([q EXCEPT !.pc = "done", !.resp = JsonStatus(200, TRUE, q.obj.avatar)],
             [w EXCEPT !.accounts.profiles = With(@, q.pid, q.obj)])

(***************************************************************************)
(* State machine.  A step receives one request and runs its view to        *)
(* completion; last is the access-log entry of that request (route, user,  *)
(* ids named by the request, status, redirect target and message level of *)
(* the response, and the net number of rows the request added to the       *)
(* store).  The next step hands the response back, after which the next    *)
(* request is taken: requests are handled one at a time.                   *)
(*                                                                         *)
(* No view reads created_at, updated_at or added_at, they are only         *)
(* written from the clock, so Spec holds the clock still.                  *)
(***************************************************************************)
Idle ==
    [op |-> "none", user |-> Anonymous, id |-> 0, id2 |-> 0,
     status |-> 0, location |-> "", msg |-> "", rows |-> 0]

RowCount(d) ==
    Cardinality(DOMAIN d.notebooks) + Cardinality(DOMAIN d.notes)
        + Cardinality(DOMAIN d.tags) + Cardinality(DOMAIN d.notetags)

LogEntry(op, u, id, id2, r, before) ==
    [op |-> op, user |-> u, id |-> id, id2 |-> id2,
     status |-> r.resp.status, location |-> r.resp.location, msg |-> r.resp.msg,
     rows |-> RowCount(r.db) - RowCount(before)]

NotebookIds == 1..MaxNotebooks
NoteIds == 1..MaxNotes
TagIds == 1..MaxTags

WithinBounds(d) ==
    /\ d.seq.notebook <= MaxNotebooks
    /\ d.seq.note <= MaxNotes
    /\ d.seq.tag <= MaxTags
    /\ d.seq.notetag <= MaxNoteTags
    /\ d.seq.notebook + d.seq.note + d.seq.tag <= MaxRows

\* the server is free and the result r of the view stays within the bounds
Ready(r) == last = Idle /\ WithinBounds(r.db)

Init ==
    /\ db = EmptyDb
    /\ now = 0
    /\ last = Idle
    /\ accounts = EmptyAccounts
    /\ sessions = [c \in Clients |-> AnonymousSession]
    /\ media = {}
    /\ inflight = [w \in Workers |-> NoRequest]

SendResponse ==
    /\ last # Idle
    /\ last' = Idle
    /\ UNCHANGED <<db, now, accounts, sessions, media, inflight>>

WorkspaceHome ==
    \E u \in Actors, m \in Methods :
        LET r == WorkspaceHomeView(db, now, u, m)
        IN /\ Ready(r)
           /\ db' = r.db
           /\ last' = LogEntry("workspace_home", u, 0, 0, r, db)
           /\ UNCHANGED <<now, accounts, sessions, media, inflight>>

NotebookDetail ==
    \E u \in Actors, m \in Methods, id \in NotebookIds :
        LET r == NotebookDetailView(db, now, u, m, id)
        IN /\ Ready(r)
           /\ db' = r.db
           /\ last' = LogEntry("notebook_detail", u, id, 0, r, db)
           /\ UNCHANGED <<now, accounts, sessions, media, inflight>>

NotebookCreate ==
    \E u \in Actors, m \in Methods, f \in NotebookForms :
        LET r == NotebookCreateView(db, now, u, m, f)
        IN /\ Ready(r)
           /\ db' = r.db
           /\ last' = LogEntry("notebook_create", u, 0, 0, r, db)
           /\ UNCHANGED <<now, accounts, sessions, media, inflight>>

NotebookUpdate ==
    \E u \in Actors, m \in Methods, id \in NotebookIds, f \in NotebookForms :
        LET r == NotebookUpdateView(db, now, u, m, id, f)
        IN /\ Ready(r)
           /\ db' = r.db
           /\ last' = LogEntry("notebook_edit", u, id, 0, r, db)
           /\ UNCHANGED <<now, accounts, sessions, media, inflight>>

NotebookDelete ==
    \E u \in Actors, m \in Methods, id \in NotebookIds :
        LET r == NotebookDeleteView(db, now, u, m, id)
        IN /\ Ready(r)
           /\ db' = r.db
           /\ last' = LogEntry("notebook_delete", u, id, 0, r, db)
           /\ UNCHANGED <<now, accounts, sessions, media, inflight>>

NotebookToggleFavorite ==
    \E u \in Actors, m \in Methods, xhr \in BOOLEAN, id \in NotebookIds :
        LET r == NotebookToggleFavoriteView(db, now, u, m, xhr, id)
        IN /\ Ready(r)
           /\ db' = r.db
           /\ last' = LogEntry("notebook_toggle_favorite", u, id, 0, r, db)
           /\ UNCHANGED <<now, accounts, sessions, media, inflight>>

NoteCreate ==
    \E u \in Actors, m \in Methods, id \in NotebookIds, f \in NoteForms :
        LET r == NoteCreateView(db, now, u, m, id, f)
        IN /\ Ready(r)
           /\ db' = r.db
           /\ last' = LogEntry("note_create", u, id, 0, r, db)
           /\ UNCHANGED <<now, accounts, sessions, media, inflight>>

NoteDetail ==
    \E u \in Actors, m \in Methods, id \in NoteIds :
        LET r == NoteDetailView(db, now, u, m, id)
        IN /\ Ready(r)
           /\ db' = r.db
           /\ last' = LogEntry("note_detail", u, id, 0, r, db)
           /\ UNCHANGED <<now, accounts, sessions, media, inflight>>

NoteUpdate ==
    \E u \in Actors, m \in Methods, id \in NoteIds, f \in NoteForms :
        LET r == NoteUpdateView(db, now, u, m, id, f)
        IN /\ Ready(r)
           /\ db' = r.db
           /\ last' = LogEntry("note_edit", u, id, 0, r, db)
           /\ UNCHANGED <<now, accounts, sessions, media, inflight>>

NoteDelete ==
    \E u \in Actors, m \in Methods, id \in NoteIds :
        LET r == NoteDeleteView(db, now, u, m, id)
        IN /\ Ready(r)
           /\ db' = r.db
           /\ last' = LogEntry("note_delete", u, id, 0, r, db)
           /\ UNCHANGED <<now, accounts, sessions, media, inflight>>

NoteTogglePin ==
    \E u \in Actors, m \in Methods, xhr \in BOOLEAN, id \in NoteIds :
        LET r == NoteTogglePinView(db, now, u, m, xhr, id)
        IN /\ Ready(r)
           /\ db' = r.db
           /\ last' = LogEntry("note_toggle_pin", u, id, 0, r, db)
           /\ UNCHANGED <<now, accounts, sessions, media, inflight>>

TagList ==
    \E u \in Actors, m \in Methods :
        LET r == TagListView(db, now, u, m)
        IN /\ Ready(r)
           /\ db' = r.db
           /\ last' = LogEntry("tag_list", u, 0, 0, r, db)
           /\ UNCHANGED <<now, accounts, sessions, media, inflight>>

TagCreate ==
    \E u \in Actors, m \in Methods, f \in TagForms :
        LET r == TagCreateView(db, now, u, m, f)
        IN /\ Ready(r)
           /\ db' = r.db
           /\ last' = LogEntry("tag_create", u, 0, 0, r, db)
           /\ UNCHANGED <<now, accounts, sessions, media, inflight>>

NoteAddTag ==
    \E u \in Actors, m \in Methods, id \in NoteIds, p \in TagIdParams :
        LET r == NoteAddTagView(db, now, u, m, id, p)
        IN /\ Ready(r)
           /\ db' = r.db
           /\ last' = LogEntry("note_add_tag", u, id,
                               IF IsNumber(p.text) THEN ParseInt(p.text) ELSE 0, r, db)
           /\ UNCHANGED <<now, accounts, sessions, media, inflight>>

NoteRemoveTag ==
    \E u \in Actors, m \in Methods, id \in NoteIds, tag_id \in TagIds :
        LET r == NoteRemoveTagView(db, now, u, m, id, tag_id)
        IN /\ Ready(r)
           /\ db' = r.db
           /\ last' = LogEntry("note_remove_tag", u, id, tag_id, r, db)
           /\ UNCHANGED <<now, accounts, sessions, media, inflight>>

Next ==
    \/ SendResponse
    \/ WorkspaceHome
    \/ NotebookDetail
    \/ NotebookCreate
    \/ NotebookUpdate
    \/ NotebookDelete
    \/ NotebookToggleFavorite
    \/ NoteCreate
    \/ NoteDetail
    \/ NoteUpdate
    \/ NoteDelete
    \/ NoteTogglePin
    \/ TagList
    \/ TagCreate
    \/ NoteAddTag
    \/ NoteRemoveTag

Spec == Init /\ [][Next]_vars

(***************************************************************************)
(* The same server with a clock that moves between requests: auto_now and  *)
(* auto_now_add read it whenever a row is saved.                           *)
(***************************************************************************)
Tick ==
    /\ last = Idle
    /\ now < MaxTime
    /\ now' = now + 1
    /\ UNCHANGED <<db, last, accounts, sessions, media, inflight>>

NextClock ==
    \/ Tick
    \/ SendResponse
    \/ NotebookCreate
    \/ NotebookToggleFavorite
    \/ NoteCreate
    \/ NoteTogglePin

SpecClock == Init /\ [][NextClock]_vars

(***************************************************************************)
(* The users app as a state machine: a request comes from a browser and    *)
(* runs its view on the accounts, the session of that browser and the      *)
(* media storage.  The create_profiles command is run from a shell, and a  *)
(* Profile row can be deleted outside the views (admin site, shell).       *)
(***************************************************************************)
AccountRows(w) ==
    Cardinality(DOMAIN w.accounts.users) + Cardinality(DOMAIN w.accounts.profiles)
        + Cardinality(w.media)

\* the access-log entry: user and id are request.user before the request,
\* id2 the user of the session after it, rows the net number of User rows,
\* Profile rows and stored files the request added
UserLogEntry(op, w, r) ==
    [op |-> op,
     user |-> IF IsAuthenticated(w) THEN RequestUsername(w) ELSE Anonymous,
     id |-> w.session.user, id2 |-> r.site.session.user,
     status |-> r.resp.status, location |-> r.resp.location, msg |-> r.resp.msg,
     rows |-> AccountRows(r.site) - AccountRows(w)]

UsersWithinBounds(w) ==
    /\ w.accounts.seq.profile <= MaxProfiles
    /\ Cardinality(w.media) <= MaxFiles

ReadyUsers(r) == last = Idle /\ UsersWithinBounds(r.site)

SignUp ==
    \E c \in Clients, m \in Methods, f \in SignUpForms :
        LET w == Site(accounts, sessions[c], media)
            r == SignUpView(w, m, f)
        IN /\ ReadyUsers(r)
           /\ accounts' = r.site.accounts
           /\ sessions' = [sessions EXCEPT ![c] = r.site.session]
           /\ media' = r.site.media
           /\ last' = UserLogEntry("signup", w, r)
           /\ UNCHANGED <<db, now, inflight>>

Login ==
    \E c \in Clients, m \in Methods, f \in LoginForms :
        LET w == Site(accounts, sessions[c], media)
            r == CustomLoginView(w, m, f)
        IN /\ ReadyUsers(r)
           /\ accounts' = r.site.accounts
           /\ sessions' = [sessions EXCEPT ![c] = r.site.session]
           /\ media' = r.site.media
           /\ last' = UserLogEntry("login", w, r)
           /\ UNCHANGED <<db, now, inflight>>

Logout ==
    \E c \in Clients, m \in Methods :
        LET w == Site(accounts, sessions[c], media)
            r == LogoutView(w, m)
        IN /\ ReadyUsers(r)
           /\ accounts' = r.site.accounts
           /\ sessions' = [sessions EXCEPT ![c] = r.site.session]
           /\ media' = r.site.media
           /\ last' = UserLogEntry("logout", w, r)
           /\ UNCHANGED <<db, now, inflight>>

ProfileView ==
    \E c \in Clients, m \in Methods :
      \E f \in ProfileForms(RequestUsername(Site(accounts, sessions[c], media))) :
        LET w == Site(accounts, sessions[c], media)
            r == profile_view(w, m, f)
        IN /\ ReadyUsers(r)
           /\ accounts' = r.site.accounts
           /\ sessions' = [sessions EXCEPT ![c] = r.site.session]
           /\ media' = r.site.media
           /\ last' = UserLogEntry("profile", w, r)
           /\ UNCHANGED <<db, now, inflight>>

UpdateAvatar ==
    \E c \in Clients, m \in Methods, p \in AvatarPosts, uuid \in 1..MaxUuid :
        LET w == Site(accounts, sessions[c], media)
            r == update_avatar(w, m, p, uuid)
        IN /\ ReadyUsers(r)
           /\ accounts' = r.site.accounts
           /\ sessions' = [sessions EXCEPT ![c] = r.site.session]
           /\ media' = r.site.media
           /\ last' = UserLogEntry("update_avatar", w, r)
           /\ UNCHANGED <<db, now, inflight>>

CreateProfiles ==
    LET w == Site(accounts, AnonymousSession, media)
        r == SiteResult(Response(0, "", 0, "", "", <<>>, {}),
                        [w EXCEPT !.accounts = create_profiles(@)])
    IN /\ ReadyUsers(r)
       /\ accounts' = r.site.accounts
       /\ last' = UserLogEntry("create_profiles", w, r)
       /\ UNCHANGED <<db, now, sessions, media, inflight>>

\* Profile.objects.filter(user=user).delete()
RemoveProfile ==
    \E uid \in DOMAIN accounts.users :
        LET w == Site(accounts, AnonymousSession, media)
            r == SiteResult(Response(0, "", 0, "", "", <<>>, {}),
                            [w EXCEPT !.accounts.profiles =
                                          Without(@, ProfilesOf(accounts, uid))])
        IN /\ ReadyUsers(r)
           /\ ProfilesOf(accounts, uid) # {}
           /\ accounts' = r.site.accounts
           /\ last' = UserLogEntry("remove_profile", w, r)
           /\ UNCHANGED <<db, now, sessions, media, inflight>>

NextUsers ==
    \/ SendResponse
    \/ SignUp
    \/ Login
    \/ Logout
    \/ ProfileView
    \/ UpdateAvatar
    \/ CreateProfiles
    \/ RemoveProfile

SpecUsers == Init /\ [][NextUsers]_vars

(***************************************************************************)
(* The form-processing entry points of the three apps on one server:       *)
(* signup, and create and edit of notebooks and notes.                     *)
(***************************************************************************)
NextForms ==
    \/ SendResponse
    \/ SignUp
    \/ Logout
    \/ NotebookCreate
    \/ NotebookUpdate
    \/ NoteCreate
    \/ NoteUpdate

SpecForms == Init /\ [][NextForms]_vars

(***************************************************************************)
(* Two requests served at the same time on a store that holds a notebook   *)
(* of u1 with one note, with or without a tag on it.  A worker receives    *)
(* a request and runs the view up to its first query; the later queries    *)
(* of the view are later steps.                                            *)
(***************************************************************************)
RaceNotebook ==
    NotebookCreateView(EmptyDb, 0, "u1", "POST",
                       [title |-> <<"A">>, description |-> <<>>, color |-> Cyan,
                        is_favorite |-> FALSE]).db

RaceNote ==
    NoteCreateView(RaceNotebook, 0, "u1", "POST", 1,
                   [title |-> <<"N">>, content |-> <<>>]).db

RaceTagged ==
    NoteAddTagView(TagCreateView(RaceNote, 0, "u1", "POST",
                                 [name |-> <<"x">>, color |-> Cyan]).db,
                   0, "u1", "POST", 1, [present |-> TRUE, text |-> <<"1">>]).db

RaceStores == {RaceNote, RaceTagged}

RaceIds == 1..MaxRaceId

InitRace ==
    /\ db \in RaceStores
    /\ now = 0
    /\ last = Idle
    /\ accounts = EmptyAccounts
    /\ sessions = [c \in Clients |-> AnonymousSession]
    /\ media = {}
    /\ inflight = [w \in Workers |-> NoRequest]

\* the number of writes the requests in flight have committed
Commits == Cardinality({w \in Workers : inflight[w].at > 0})

Receive(w, q) ==
    /\ inflight[w].pc = "idle"
    /\ inflight' = [inflight EXCEPT ![w] = q]
    /\ UNCHANGED <<db, now, last, accounts, sessions, media>>

ReceiveToggleFavorite ==
    \E w \in Workers, u \in Users, id \in RaceIds, xhr \in BOOLEAN :
        Receive(w, ToggleFavoriteRead(db, u, id, xhr))

ReceiveTogglePin ==
    \E w \in Workers, u \in Users, id \in RaceIds, xhr \in BOOLEAN :
        Receive(w, TogglePinRead(db, u, id, xhr))

ReceiveNotebookEdit ==
    \E w \in Workers, u \in Users, id \in RaceIds, f \in NotebookForms :
        Receive(w, NotebookEditRead(db, u, id, f))

ReceiveNoteEdit ==
    \E w \in Workers, u \in Users, id \in RaceIds, f \in NoteForms :
        Receive(w, NoteEditRead(db, u, id, f))

ReceiveNotebookDelete ==
    \E w \in Workers, u \in Users, id \in RaceIds :
        Receive(w, NotebookDeleteRead(db, u, id))

ReceiveNoteDelete ==
    \E w \in Workers, u \in Users, id \in RaceIds :
        Receive(w, NoteDeleteRead(db, u, id))

ReceiveNoteCreate ==
    \E w \in Workers, u \in Users, id \in RaceIds, f \in NoteForms :
        Receive(w, NoteCreateRead(db, now, u, id, f))

ReceiveTagCreate ==
    \E w \in Workers, u \in Users, f \in TagForms :
        Receive(w, TagCreateRead(db, now, u, f))

Collect ==
    \E w \in Workers :
        /\ inflight[w].pc = "loaded"
        /\ inflight[w].op = "notebook_delete"
        /\ inflight' = [inflight EXCEPT ![w] = NotebookDeleteCollect(db, @)]
        /\ UNCHANGED <<db, now, last, accounts, sessions, media>>

\* the write of the view of request q
WriteOf(d, t, q) ==
    CASE q.op = "notebook_toggle_favorite" -> ToggleFavoriteWrite(d, t, q)
      [] q.op = "note_toggle_pin" -> TogglePinWrite(d, t, q)
      [] q.op = "notebook_edit" -> NotebookEditWrite(d, t, q)
      [] q.op = "note_edit" -> NoteEditWrite(d, t, q)
      [] q.op = "notebook_delete" -> NotebookDeleteWrite(d, q)
      [] q.op = "note_delete" -> NoteDeleteWrite(d, q)
      [] q.op = "note_create" -> NoteCreateWrite(d, t, q)
      [] q.op = "tag_create" -> TagCreateWrite(d, t, q)

Write ==
    \E w \in Workers :
        LET q == inflight[w]
            r == WriteOf(db, now, q)
        IN /\ \/ q.pc = "loaded" /\ q.op # "notebook_delete"
              \/ q.pc = "collected"
           /\ db' = r.db
           /\ inflight' = [inflight EXCEPT ![w] =
                  [r.req EXCEPT !.at = IF r.req.resp.status = 500 THEN 0
                                       ELSE Commits + 1]]
           /\ UNCHANGED <<now, last, accounts, sessions, media>>

NextRace ==
    \/ ReceiveToggleFavorite
    \/ ReceiveTogglePin
    \/ ReceiveNotebookEdit
    \/ ReceiveNoteEdit
    \/ ReceiveNotebookDelete
    \/ ReceiveNoteDelete
    \/ ReceiveNoteCreate
    \/ ReceiveTagCreate
    \/ Collect
    \/ Write

SpecRace == InitRace /\ [][NextRace]_vars

(***************************************************************************)
(* Two requests of the users app served at the same time for one user who  *)
(* has signed up, with or without an avatar.                               *)
(***************************************************************************)
RaceSite ==
    SignUpView(Site(EmptyAccounts, AnonymousSession, {}), "POST",
               [username |-> "u1", email |-> GoodEmail, password1 |-> "p",
                password2 |-> "p"]).site

RaceSiteWithAvatar ==
    update_avatar(RaceSite, "POST", [delete_avatar |-> "", avatar_cropped |-> PngUri],
                  1).site

RaceSites == {RaceSite, RaceSiteWithAvatar}

InitAvatarRace ==
    /\ db = EmptyDb
    /\ now = 0
    /\ last = Idle
    /\ \E w \in RaceSites :
           /\ accounts = w.accounts
           /\ sessions = [c \in Clients |-> w.session]
           /\ media = w.media
    /\ inflight = [w \in Workers |-> NoRequest]

\* the site as the request of browser c sees it
SiteOf(c) == Site(accounts, sessions[c], media)

\* the step r of worker w takes effect
Proceed(w, r) ==
    /\ inflight' = [inflight EXCEPT ![w] = r.req]
    /\ accounts' = r.site.accounts
    /\ media' = r.site.media
    /\ UNCHANGED <<db, now, last, sessions>>

ReceiveProfileUpdate ==
    \E w \in Workers, c \in Clients :
      \E f \in ProfileForms(RequestUsername(SiteOf(c))) :
        /\ inflight[w].pc = "idle"
        /\ IsAuthenticated(SiteOf(c))
        /\ Proceed(w, ProfileUpdateRead(SiteOf(c), f))

ReceiveUpdateAvatar ==
    \E w \in Workers, c \in Clients, p \in AvatarPosts, uuid \in 1..MaxUuid :
        /\ inflight[w].pc = "idle"
        /\ IsAuthenticated(SiteOf(c))
        /\ Proceed(w, AvatarRead(SiteOf(c), p, uuid))

SignalLoad ==
    \E w \in Workers :
        /\ inflight[w].op = "profile" /\ inflight[w].pc = "loaded"
        /\ Proceed(w, ProfileUpdateSignalLoad(Site(accounts, AnonymousSession, media),
                                              inflight[w]))

SignalSave ==
    \E w \in Workers :
        /\ inflight[w].op = "profile" /\ inflight[w].pc = "signal"
        /\ Proceed(w, ProfileUpdateSignalSave(Site(accounts, AnonymousSession, media),
                                              inflight[w]))

WriteProfile ==
    \E w \in Workers :
        /\ inflight[w].op = "profile" /\ inflight[w].pc = "resaved"
        /\ Proceed(w, ProfileUpdateWrite(Site(accounts, AnonymousSession, media),
                                         inflight[w]))

Unlink ==
    \E w \in Workers :
        /\ inflight[w].op \in {"avatar_delete", "avatar_upload"}
        /\ inflight[w].pc = "loaded"
        /\ Proceed(w, AvatarUnlink(Site(accounts, AnonymousSession, media), inflight[w]))

Store ==
    \E w \in Workers :
        /\ inflight[w].op = "avatar_upload" /\ inflight[w].pc = "decoded"
        /\ Proceed(w, AvatarStore(Site(accounts, AnonymousSession, media), inflight[w]))

WriteAvatar ==
    \E w \in Workers :
        /\ inflight[w].op \in {"avatar_delete", "avatar_upload"}
        /\ inflight[w].pc = "stored"
        /\ Proceed(w, AvatarWrite(Site(accounts, AnonymousSession, media), inflight[w]))

NextAvatarRace ==
    \/ ReceiveProfileUpdate
    \/ ReceiveUpdateAvatar
    \/ SignalLoad
    \/ SignalSave
    \/ WriteProfile
    \/ Unlink
    \/ Store
    \/ WriteAvatar

SpecAvatarRace == InitAvatarRace /\ [][NextAvatarRace]_vars

(***************************************************************************)
(* The create, edit, toggle and tag entry points of workspace and notes on *)
(* one server with the moving clock: the requests that write a row that    *)
(* has an owner.                                                           *)
(***************************************************************************)
\* the POST data of a client that adds owner-like fields to the fields of
\* the form
Submitted(f, user, notebook) ==
    [k \in DOMAIN f \cup {"user", "notebook"} |->
        IF k = "user" THEN user ELSE IF k = "notebook" THEN notebook ELSE f[k]]

OwnerStores == {RaceNote, RaceTagged}

InitOwner ==
    /\ db \in OwnerStores
    /\ now = 0
    /\ last = Idle
    /\ accounts = EmptyAccounts
    /\ sessions = [c \in Clients |-> AnonymousSession]
    /\ media = {}
    /\ inflight = [w \in Workers |-> NoRequest]

NextOwner ==
    \/ Tick
    \/ SendResponse
    \/ NotebookCreate
    \/ NotebookUpdate
    \/ NotebookToggleFavorite
    \/ NoteCreate
    \/ NoteUpdate
    \/ NoteTogglePin
    \/ TagCreate
    \/ NoteAddTag
    \/ NoteRemoveTag

SpecOwner == InitOwner /\ [][NextOwner]_vars

(***************************************************************************)
(* Properties.                                                             *)
(***************************************************************************)
\* the store d as user u sees it: the rows of the other users removed
Hide(d, u) ==
    LET notes == OwnedIds(d.notes, u)
        tags == OwnedIds(d.tags, u)
    IN [d EXCEPT !.notebooks = Without(@, DOMAIN @ \ OwnedIds(@, u)),
                 !.notes = Without(@, DOMAIN @ \ notes),
                 !.tags = Without(@, DOMAIN @ \ tags),
                 !.notetags = Without(@, {i \in DOMAIN @ : \/ @[i].note \notin notes
                                                           \/ @[i].tag \notin tags})]

\* C1: a detail, edit, delete or toggle request on a Notebook or Note by an
\* authenticated user who is not its owner is answered 404 and leaves the
\* store, and so the entity and every attribute of it, unchanged.
C1_NonOwnerNotFound ==
    last = Idle =>
        \A u \in Users, m \in Methods :
            /\ \A id \in DOMAIN db.notebooks :
                   db.notebooks[id].user # u =>
                       /\ NotebookDetailView(db, now, u, "GET", id) = Result(Http404, db)
                       /\ \A f \in NotebookForms :
                              NotebookUpdateView(db, now, u, m, id, f) = Result(Http404, db)
                       /\ NotebookDeleteView(db, now, u, m, id) = Result(Http404, db)
                       /\ \A xhr \in BOOLEAN :
                              NotebookToggleFavoriteView(db, now, u, "POST", xhr, id)
                                  = Result(Http404, db)
            /\ \A id \in DOMAIN db.notes :
                   db.notes[id].user # u =>
                       /\ NoteDetailView(db, now, u, "GET", id) = Result(Http404, db)
                       /\ \A f \in NoteForms :
                              NoteUpdateView(db, now, u, m, id, f) = Result(Http404, db)
                       /\ NoteDeleteView(db, now, u, m, id) = Result(Http404, db)
                       /\ \A xhr \in BOOLEAN :
                              NoteTogglePinView(db, now, u, "POST", xhr, id)
                                  = Result(Http404, db)

\* C1 witness: a delete or edit request on an existing notebook or note of
\* another user has been answered 404 and the entity is still there.
C1_Witness ==
    /\ last.status = 404
    /\ \/ /\ last.op \in {"notebook_delete", "notebook_edit"}
          /\ last.id \in DOMAIN db.notebooks
          /\ db.notebooks[last.id].user # last.user
       \/ /\ last.op \in {"note_delete", "note_edit"}
          /\ last.id \in DOMAIN db.notes
          /\ db.notes[last.id].user # last.user

\* C2: what a user gets from a get, edit, delete, toggle, add-tag or
\* remove-tag request, and what the request does to that user's rows, is the
\* same in the store and in the store without the other users' rows: an id
\* of somebody else's entity is handled exactly like an id of no entity.
C2_NoExistenceDisclosure ==
    last = Idle =>
        \A u \in Users, m \in Methods :
            LET h == Hide(db, u)
                Same(a, b) == a.resp = b.resp /\ Hide(a.db, u) = Hide(b.db, u)
            IN /\ \A id \in NotebookIds :
                      /\ Same(NotebookDetailView(db, now, u, m, id),
                              NotebookDetailView(h, now, u, m, id))
                      /\ \A f \in NotebookForms :
                             Same(NotebookUpdateView(db, now, u, m, id, f),
                                  NotebookUpdateView(h, now, u, m, id, f))
                      /\ Same(NotebookDeleteView(db, now, u, m, id),
                              NotebookDeleteView(h, now, u, m, id))
                      /\ \A xhr \in BOOLEAN :
                             Same(NotebookToggleFavoriteView(db, now, u, m, xhr, id),
                                  NotebookToggleFavoriteView(h, now, u, m, xhr, id))
               /\ \A id \in NoteIds :
                      /\ Same(NoteDetailView(db, now, u, m, id),
                              NoteDetailView(h, now, u, m, id))
                      /\ \A f \in NoteForms :
                             Same(NoteUpdateView(db, now, u, m, id, f),
                                  NoteUpdateView(h, now, u, m, id, f))
                      /\ Same(NoteDeleteView(db, now, u, m, id),
                              NoteDeleteView(h, now, u, m, id))
                      /\ \A xhr \in BOOLEAN :
                             Same(NoteTogglePinView(db, now, u, m, xhr, id),
                                  NoteTogglePinView(h, now, u, m, xhr, id))
                      /\ \A p \in TagIdParams :
                             Same(NoteAddTagView(db, now, u, m, id, p),
                                  NoteAddTagView(h, now, u, m, id, p))
                      /\ \A tag_id \in TagIds :
                             Same(NoteRemoveTagView(db, now, u, m, id, tag_id),
                                  NoteRemoveTagView(h, now, u, m, id, tag_id))

\* C2 witness: a toggle on another user's note, or an add-tag naming another
\* user's tag, has been answered 404 while the named entity exists.
C2_Witness ==
    /\ last.status = 404
    /\ \/ /\ last.op = "note_toggle_pin"
          /\ last.id \in DOMAIN db.notes
          /\ db.notes[last.id].user # last.user
       \/ /\ last.op = "note_add_tag"
          /\ Owned(db.notes, last.id, last.user)
          /\ last.id2 \in DOMAIN db.tags
          /\ db.tags[last.id2].user # last.user

\* C3: every request to a notebook, note, tag or note-tag route made without
\* an authenticated session is answered with a redirect to the login entry
\* point and adds or removes no row.
C3_LoginRequired ==
    (last.op # "none" /\ last.user = Anonymous) =>
        /\ last.status = 302
        /\ last.location = "users:login"
        /\ last.rows = 0

\* the rows of table a are the rows of table b under the ids in keep
SameRows(a, b, keep) == DOMAIN a = keep /\ \A i \in keep : a[i] = b[i]

\* C4: no two Tag rows have the same (name, user); a tag-create by a user
\* with a name that only other users have used succeeds, adds the user's
\* row with that name and leaves the rows of the others in place.
C4_TagNameUniquePerUser ==
    /\ \A i, j \in DOMAIN db.tags :
           (db.tags[i].name = db.tags[j].name /\ db.tags[i].user = db.tags[j].user)
               => i = j
    /\ last = Idle =>
           \A v \in Users, f \in TagForms :
               LET name == Strip(f.name)
                   mine(d) == {i \in DOMAIN d.tags : d.tags[i].name = name
                                                      /\ d.tags[i].user = v}
                   theirs(d) == {i \in DOMAIN d.tags : d.tags[i].name = name
                                                        /\ d.tags[i].user # v}
                   r == TagCreateView(db, now, v, "POST", f)
               IN (TagFormValid(f) /\ theirs(db) # {} /\ mine(db) = {}) =>
                      /\ r.resp = Redirect("notes:tag_list", 0, "success")
                      /\ Cardinality(mine(r.db)) = 1
                      /\ theirs(r.db) = theirs(db)
                      /\ \A i \in DOMAIN db.tags :
                             i \in DOMAIN r.db.tags /\ r.db.tags[i] = db.tags[i]

\* C4 witness: a tag-create has added a row whose name another user's tag
\* already has.
C4_Witness ==
    /\ last.op = "tag_create" /\ last.msg = "success" /\ last.rows = 1
    /\ \E i, j \in DOMAIN db.tags :
           /\ db.tags[i].name = db.tags[j].name
           /\ db.tags[i].user = last.user
           /\ db.tags[j].user # last.user

\* C5: a tag-create with a name the user already has is answered with the
\* redirect to the tag list that a creation gets, adds no row and leaves
\* the store, and so the existing tag and its color, unchanged.
C5_DuplicateTagIsNoOp ==
    last = Idle =>
        \A u \in Users, f \in TagForms :
            LET r == TagCreateView(db, now, u, "POST", f)
                created == TagCreateView(EmptyDb, now, u, "POST", f).resp
            IN (/\ TagFormValid(f)
                /\ \E i \in DOMAIN db.tags :
                       db.tags[i].name = Strip(f.name) /\ db.tags[i].user = u) =>
                   /\ r.resp.status = 302
                   /\ r.resp.location = "notes:tag_list"
                   /\ created.msg = "success"
                   /\ r.resp.status = created.status
                   /\ r.resp.location = created.location
                   /\ r.resp.locId = created.locId
                   /\ r.db = db

\* C5 witness: a tag-create has been answered "already exists".
C5_Witness ==
    /\ last.op = "tag_create" /\ last.msg = "info"
    /\ last.status = 302 /\ last.rows = 0
    /\ OwnedIds(db.tags, last.user) # {}

\* C6: after the owner's delete of a notebook no note of that notebook and
\* no NoteTag of such a note exists; the other notebooks, the notes of the
\* other notebooks and all tags are unchanged.
C6_NotebookDeleteCascades ==
    last = Idle =>
        \A u \in Users, id \in DOMAIN db.notebooks :
            db.notebooks[id].user = u =>
                LET r == NotebookDeleteView(db, now, u, "POST", id)
                    gone == {i \in DOMAIN db.notes : db.notes[i].notebook = id}
                IN /\ r.resp.status = 302
                   /\ \A i \in DOMAIN r.db.notes : r.db.notes[i].notebook # id
                   /\ \A i \in DOMAIN r.db.notetags :
                          /\ r.db.notetags[i].note \notin gone
                          /\ r.db.notetags[i].note \in DOMAIN r.db.notes
                   /\ SameRows(r.db.notebooks, db.notebooks, DOMAIN db.notebooks \ {id})
                   /\ \A i \in DOMAIN db.notes \ gone :
                          i \in DOMAIN r.db.notes /\ r.db.notes[i] = db.notes[i]
                   /\ r.db.tags = db.tags

\* C6 witness: a notebook delete has removed the notebook, a note and a
\* NoteTag, and a tag is still there.
C6_Witness ==
    /\ last.op = "notebook_delete" /\ last.status = 302
    /\ last.rows <= 0 - 3
    /\ last.id \notin DOMAIN db.notebooks
    /\ DOMAIN db.tags # {}

\* C7: deleting a note removes that note and the NoteTag rows that
\* reference it and nothing else: notebooks, tags, the other notes and the
\* other NoteTag rows are unchanged.
C7_NoteDeleteFrame ==
    last = Idle =>
        \A u \in Users, id \in DOMAIN db.notes :
            db.notes[id].user = u =>
                LET r == NoteDeleteView(db, now, u, "POST", id)
                IN /\ r.resp.status = 302
                   /\ SameRows(r.db.notes, db.notes, DOMAIN db.notes \ {id})
                   /\ SameRows(r.db.notetags, db.notetags,
                               {i \in DOMAIN db.notetags : db.notetags[i].note # id})
                   /\ r.db.notebooks = db.notebooks
                   /\ r.db.tags = db.tags
                   /\ db.notes[id].notebook \in DOMAIN r.db.notebooks

\* C7 witness: a note delete has removed the note and a NoteTag; a notebook
\* and a tag are still there.
C7_Witness ==
    /\ last.op = "note_delete" /\ last.status = 302
    /\ last.rows = 0 - 2
    /\ DOMAIN db.notebooks # {}
    /\ DOMAIN db.tags # {}

\* C8: there is at most one NoteTag per (note, tag); an add-association for
\* a pair already associated leaves the NoteTag rows unchanged and is
\* answered with the success redirect; after any successful add the pair
\* has exactly one association and a repeated add changes nothing.
C8_AddTagIdempotent ==
    /\ \A i, j \in DOMAIN db.notetags :
           (db.notetags[i].note = db.notetags[j].note
                /\ db.notetags[i].tag = db.notetags[j].tag) => i = j
    /\ last = Idle =>
           \A u \in Users, note_id \in NoteIds, p \in TagIdParams :
               LET r == NoteAddTagView(db, now, u, "POST", note_id, p)
                   tag_id == ParseInt(p.text)
                   pairs(d) == {i \in DOMAIN d.notetags :
                                   d.notetags[i].note = note_id /\ d.notetags[i].tag = tag_id}
               IN /\ (/\ IsNumber(p.text)
                      /\ note_id \in DOMAIN db.notes /\ db.notes[note_id].user = u
                      /\ tag_id \in DOMAIN db.tags /\ db.tags[tag_id].user = u
                      /\ pairs(db) # {}) =>
                         /\ r.resp = Redirect("notes:note_detail", note_id, "success")
                         /\ r.db = db
                  /\ r.resp.status = 302 =>
                         /\ Cardinality(pairs(r.db)) = 1
                         /\ NoteAddTagView(r.db, now, u, "POST", note_id, p)
                                = Result(r.resp, r.db)

\* C8 witness: an add-association for a pair that was already associated
\* has been answered with the redirect and has added no row.
C8_Witness ==
    /\ last.op = "note_add_tag" /\ last.status = 302 /\ last.rows = 0
    /\ \E i \in DOMAIN db.notetags :
           db.notetags[i].note = last.id /\ db.notetags[i].tag = last.id2

\* C9: a remove-association for an owned note and an owned tag succeeds
\* whether or not the association exists; afterwards the pair has no
\* NoteTag, notes and tags are unchanged, and a second remove changes
\* nothing and is answered the same.
C9_RemoveTagIdempotent ==
    last = Idle =>
        \A u \in Users, note_id \in DOMAIN db.notes, tag_id \in DOMAIN db.tags :
            (db.notes[note_id].user = u /\ db.tags[tag_id].user = u) =>
                LET r == NoteRemoveTagView(db, now, u, "POST", note_id, tag_id)
                IN /\ r.resp = Redirect("notes:note_detail", note_id, "success")
                   /\ \A i \in DOMAIN r.db.notetags :
                          ~(r.db.notetags[i].note = note_id /\ r.db.notetags[i].tag = tag_id)
                   /\ r.db.notes = db.notes
                   /\ r.db.tags = db.tags
                   /\ r.db.notebooks = db.notebooks
                   /\ NoteRemoveTagView(r.db, now, u, "POST", note_id, tag_id)
                          = Result(r.resp, r.db)

\* C9 witness: a remove-association for an owned note and tag that were not
\* associated has been answered with the redirect.
C9_Witness ==
    /\ last.op = "note_remove_tag" /\ last.status = 302 /\ last.rows = 0
    /\ Owned(db.notes, last.id, last.user)
    /\ Owned(db.tags, last.id2, last.user)

\* C10: every NoteTag links an existing note and an existing tag of one
\* owner; an add or remove that names a note or a tag the user does not own
\* is answered 404 and leaves the store unchanged.
C10_AssociationsWithinOneOwner ==
    /\ \A i \in DOMAIN db.notetags :
           /\ db.notetags[i].note \in DOMAIN db.notes
           /\ db.notetags[i].tag \in DOMAIN db.tags
           /\ db.notes[db.notetags[i].note].user = db.tags[db.notetags[i].tag].user
    /\ last = Idle =>
           \A u \in Users, note_id \in NoteIds, tag_id \in TagIds :
               LET mine == /\ note_id \in DOMAIN db.notes /\ db.notes[note_id].user = u
                           /\ tag_id \in DOMAIN db.tags /\ db.tags[tag_id].user = u
                   p == [present |-> TRUE, text |-> <<Digits[tag_id + 1]>>]
               IN ~mine =>
                      /\ NoteAddTagView(db, now, u, "POST", note_id, p) = Result(Http404, db)
                      /\ NoteRemoveTagView(db, now, u, "POST", note_id, tag_id)
                             = Result(Http404, db)

\* C10 witness: a remove-association by the owner of the note that names
\* another user's tag has been answered 404.
C10_Witness ==
    /\ last.op = "note_remove_tag" /\ last.status = 404
    /\ Owned(db.notes, last.id, last.user)
    /\ last.id2 \in DOMAIN db.tags
    /\ db.tags[last.id2].user # last.user

\* C11 as claimed: a toggle by the owner changes the one flag of the one
\* targeted entity and nothing else, the updated timestamp included.
C11_ToggleChangesOnlyFlag ==
    last = Idle =>
        \A u \in Users, xhr \in BOOLEAN :
            /\ \A id \in OwnedIds(db.notebooks, u) :
                   NotebookToggleFavoriteView(db, now, u, "POST", xhr, id).db
                       = [db EXCEPT !.notebooks[id].is_favorite = ~@]
            /\ \A id \in OwnedIds(db.notes, u) :
                   NoteTogglePinView(db, now, u, "POST", xhr, id).db
                       = [db EXCEPT !.notes[id].is_pinned = ~@]

\* C11: a toggle by the owner negates the one flag of the targeted entity
\* and sets its updated timestamp to the time of the call; title,
\* description or content, color, order, owner, parent notebook and created
\* timestamp of that entity and every other entity are unchanged.
C11_ToggleFrame ==
    last = Idle =>
        \A u \in Users, xhr \in BOOLEAN :
            /\ \A id \in OwnedIds(db.notebooks, u) :
                   NotebookToggleFavoriteView(db, now, u, "POST", xhr, id).db
                       = [db EXCEPT !.notebooks[id].is_favorite = ~@,
                                    !.notebooks[id].updated_at = now]
            /\ \A id \in OwnedIds(db.notes, u) :
                   NoteTogglePinView(db, now, u, "POST", xhr, id).db
                       = [db EXCEPT !.notes[id].is_pinned = ~@,
                                    !.notes[id].updated_at = now]

\* C11 witness: a note has been pinned after it was created, next to an
\* unpinned note of the same notebook.
C11_Witness ==
    /\ last.op = "note_toggle_pin" /\ last.status \in {200, 302}
    /\ last.id \in DOMAIN db.notes
    /\ db.notes[last.id].is_pinned
    /\ db.notes[last.id].updated_at > db.notes[last.id].created_at
    /\ \E j \in DOMAIN db.notes \ {last.id} :
           db.notes[j].notebook = db.notes[last.id].notebook /\ ~db.notes[j].is_pinned

\* C12: a toggle by the owner stores the negation of the flag; a caller that
\* sent X-Requested-With: XMLHttpRequest gets status 200 with success true
\* and the value now stored, any other caller gets a redirect and no
\* payload; a second toggle right after the first stores the original value.
C12_ToggleReportsStoredValue ==
    last = Idle =>
        \A u \in Users, xhr \in BOOLEAN :
            /\ \A id \in OwnedIds(db.notebooks, u) :
                   LET r == NotebookToggleFavoriteView(db, now, u, "POST", xhr, id)
                       again == NotebookToggleFavoriteView(r.db, now, u, "POST", xhr, id)
                   IN /\ r.db.notebooks[id].is_favorite = ~db.notebooks[id].is_favorite
                      /\ xhr => /\ r.resp.status = 200
                                /\ r.resp.json = <<TRUE, r.db.notebooks[id].is_favorite>>
                      /\ ~xhr => /\ r.resp.status = 302
                                 /\ r.resp.location = "workspace:notebook_detail"
                                 /\ r.resp.locId = id
                                 /\ r.resp.json = <<>>
                      /\ again.db.notebooks[id].is_favorite = db.notebooks[id].is_favorite
            /\ \A id \in OwnedIds(db.notes, u) :
                   LET r == NoteTogglePinView(db, now, u, "POST", xhr, id)
                       again == NoteTogglePinView(r.db, now, u, "POST", xhr, id)
                   IN /\ r.db.notes[id].is_pinned = ~db.notes[id].is_pinned
                      /\ xhr => /\ r.resp.status = 200
                                /\ r.resp.json = <<TRUE, r.db.notes[id].is_pinned>>
                      /\ ~xhr => /\ r.resp.status = 302
                                 /\ r.resp.location = "notes:note_detail"
                                 /\ r.resp.locId = id
                                 /\ r.resp.json = <<>>
                      /\ again.db.notes[id].is_pinned = db.notes[id].is_pinned

\* C12 witness: an XMLHttpRequest toggle-favorite by the owner has been
\* answered 200 and the notebook is now a favorite.
C12_Witness ==
    /\ last.op = "notebook_toggle_favorite" /\ last.status = 200
    /\ Owned(db.notebooks, last.id, last.user)
    /\ db.notebooks[last.id].is_favorite

\* C13: a note-create by user u under notebook id n is answered 404 and
\* leaves the store unchanged, whatever the method and the form, when no
\* notebook n exists or u does not own it; otherwise a POST with a valid
\* form adds exactly one Note, owned by u, in notebook n, not pinned, with
\* order 0, and changes no other row.
C13_NoteCreateUnderOwnedNotebook ==
    last = Idle =>
        \A u \in Users, m \in Methods, n \in NotebookIds, f \in NoteForms :
            LET r == NoteCreateView(db, now, u, m, n, f)
                new == DOMAIN r.db.notes \ DOMAIN db.notes
                owned == n \in DOMAIN db.notebooks /\ db.notebooks[n].user = u
            IN /\ ~owned => r = Result(Http404, db)
               /\ (owned /\ m = "POST" /\ NoteFormValid(f)) =>
                      /\ r.resp.status = 302
                      /\ Cardinality(new) = 1
                      /\ \A i \in new :
                             /\ r.db.notes[i].user = u
                             /\ r.db.notes[i].notebook = n
                             /\ r.db.notes[i].is_pinned = FALSE
                             /\ r.db.notes[i].order = 0
                             /\ r.db.notes[i].title = Strip(f.title)
                      /\ \A i \in DOMAIN db.notes :
                             i \in DOMAIN r.db.notes /\ r.db.notes[i] = db.notes[i]
                      /\ r.db.notebooks = db.notebooks
                      /\ r.db.tags = db.tags
                      /\ r.db.notetags = db.notetags

\* C13 witness: a note-create under an existing notebook of another user
\* has been answered 404, in a store where a note-create has succeeded.
C13_Witness ==
    /\ last.op = "note_create" /\ last.status = 404 /\ last.rows = 0
    /\ last.user \in Users
    /\ last.id \in DOMAIN db.notebooks
    /\ db.notebooks[last.id].user # last.user
    /\ DOMAIN db.notes # {}

\* C14: in every reachable state every Note belongs to an existing Notebook
\* whose owner is the owner of the Note.
C14_NoteOwnerIsNotebookOwner ==
    \A i \in DOMAIN db.notes :
        /\ db.notes[i].notebook \in DOMAIN db.notebooks
        /\ db.notebooks[db.notes[i].notebook].user = db.notes[i].user

\* C14 witness: a note has been created while another user has a notebook.
C14_Witness ==
    /\ last.op = "note_create" /\ last.status = 302 /\ last.rows = 1
    /\ \E i \in DOMAIN db.notes : db.notes[i].user = last.user
    /\ \E j \in DOMAIN db.notebooks : db.notebooks[j].user # last.user

\* C15: a successful login leaves the session with the expiry its own
\* remember_me field asks for, 0 when the field is absent or empty and
\* 1209600 when it is sent, whatever expiry the session had before; a
\* session that a login has just authenticated has one of these two.
C15_RememberMeExpiry ==
    /\ (last.op = "login" /\ last.msg = "success") =>
           \A c \in Clients :
               sessions[c].user = last.id2 => sessions[c].expiry \in {0, 1209600}
    /\ last = Idle =>
           \A c \in Clients, f \in LoginForms, e \in {NoExpiry, 0, 1209600} :
               LET w == Site(accounts, [user |-> NoUser, expiry |-> e], media)
                   r == CustomLoginView(w, "POST", f)
                   sent == f.remember_me.present /\ f.remember_me.text # ""
               IN r.site.session.user # NoUser =>
                      /\ r.resp.status = 302
                      /\ accounts.users[r.site.session.user].username = f.username
                      /\ ~sent => r.site.session.expiry = 0
                      /\ sent => r.site.session.expiry = 1209600

\* C15 witness: a login without remember_me has been answered with the
\* redirect and the session ends with the browser session.
C15_Witness ==
    /\ last.op = "login" /\ last.msg = "success" /\ last.status = 302
    /\ \E c \in Clients : sessions[c].user = last.id2 /\ sessions[c].expiry = 0

\* C16: a signup POST by a visitor without an authenticated session, with a
\* free username, a well-formed email and two equal passwords, adds exactly
\* one User, with that username and email, gives it exactly one Profile,
\* authenticates the session as that User and is answered with the
\* redirect home; the Users there were are unchanged.
C16_SignupCreatesUserProfileSession ==
    last = Idle =>
        \A c \in Clients, f \in SignUpForms :
            LET w == Site(accounts, sessions[c], media)
                r == SignUpView(w, "POST", f)
                new == DOMAIN r.site.accounts.users \ DOMAIN accounts.users
            IN (/\ sessions[c].user = NoUser
                /\ f.username # ""
                /\ \A i \in DOMAIN accounts.users : accounts.users[i].username # f.username
                /\ Strip(f.email) = GoodEmail
                /\ f.password1 = f.password2) =>
                   /\ r.resp.status = 302 /\ r.resp.location = "home"
                   /\ Cardinality(new) = 1
                   /\ \A i \in new :
                          /\ r.site.accounts.users[i].username = f.username
                          /\ r.site.accounts.users[i].email = GoodEmail
                          /\ Cardinality(ProfilesOf(r.site.accounts, i)) = 1
                          /\ r.site.session.user = i
                   /\ \A i \in DOMAIN accounts.users :
                          r.site.accounts.users[i] = accounts.users[i]

\* C16 witness: a signup has added a User and its Profile and the browser
\* is logged in as that User, next to a User that was there before.
C16_Witness ==
    /\ last.op = "signup" /\ last.status = 302 /\ last.rows = 2
    /\ last.id = NoUser
    /\ \E c \in Clients : sessions[c].user = last.id2
    /\ Cardinality(ProfilesOf(accounts, last.id2)) = 1
    /\ Cardinality(DOMAIN accounts.users) = 2

C18_InvalidFormPersistsNothing ==
    last = Idle =>
        /\ \A c \in Clients, f \in SignUpForms :
               LET w == Site(accounts, sessions[c], media)
                   r == SignUpView(w, "POST", f)
               IN (sessions[c].user = NoUser
                       /\ (f.email = BadEmail \/ f.password1 # f.password2)) =>
                      /\ r.resp.status = 200
                      /\ r.resp.template = "users/signup.html"
                      /\ r.site = w
        /\ \A u \in Users :
               /\ \A f \in NotebookForms :
                      LET bad == Strip(f.title) = <<>> \/ f.color \notin COLOR_CHOICES
                      IN /\ Strip(f.title) = <<>> =>
                                /\ NotebookCreateView(db, now, u, "POST", f).resp.status = 200
                                /\ NotebookCreateView(db, now, u, "POST", f).db = db
                         /\ bad => \A id \in OwnedIds(db.notebooks, u) :
                                /\ NotebookUpdateView(db, now, u, "POST", id, f).resp.status = 200
                                /\ NotebookUpdateView(db, now, u, "POST", id, f).db = db
               /\ \A f \in NoteForms :
                      Strip(f.title) = <<>> =>
                          /\ \A n \in OwnedIds(db.notebooks, u) :
                                 /\ NoteCreateView(db, now, u, "POST", n, f).resp.status = 200
                                 /\ NoteCreateView(db, now, u, "POST", n, f).db = db
                          /\ \A id \in OwnedIds(db.notes, u) :
                                 /\ NoteUpdateView(db, now, u, "POST", id, f).resp.status = 200
                                 /\ NoteUpdateView(db, now, u, "POST", id, f).db = db

\* C18 witness: an edit of an owned note with an invalid form has been
\* answered with the form again, on a server where a signup has succeeded.
C18_Witness ==
    /\ last.op = "note_edit" /\ last.status = 200 /\ last.rows = 0
    /\ Owned(db.notes, last.id, last.user)
    /\ DOMAIN accounts.users # {}

\* C19: no User ever has two Profiles; a User has exactly one right after
\* the signup that created it, after a profile-view request (GET or POST)
\* or an update-avatar POST of that User, also when its Profile had been
\* deleted, and after the create_profiles command; none of these replaces
\* a Profile that exists, and a profile-view GET, an update-avatar POST
\* without data and the command leave an existing Profile as it is.
C19_ExactlyOneProfile ==
    /\ \A uid \in DOMAIN accounts.users : Cardinality(ProfilesOf(accounts, uid)) <= 1
    /\ (last.op = "signup" /\ last.rows > 0) =>
           Cardinality(ProfilesOf(accounts, last.id2)) = 1
    /\ last = Idle =>
           /\ \A c \in Clients :
                  LET w == Site(accounts, sessions[c], media)
                      uid == sessions[c].user
                      before == ProfilesOf(accounts, uid)
                      Kept(a) == /\ Cardinality(ProfilesOf(a, uid)) = 1
                                 /\ before # {} => ProfilesOf(a, uid) = before
                                 /\ \A i \in DOMAIN accounts.profiles :
                                        accounts.profiles[i].user # uid =>
                                            /\ i \in DOMAIN a.profiles
                                            /\ a.profiles[i] = accounts.profiles[i]
                      Same(a) == \A i \in before : a.profiles[i] = accounts.profiles[i]
                  IN uid \in DOMAIN accounts.users =>
                         /\ \A m \in Methods, f \in ProfileForms(RequestUsername(w)) :
                                LET a == profile_view(w, m, f).site.accounts
                                IN Kept(a) /\ (m = "GET" => Same(a))
                         /\ \A p \in AvatarPosts, uuid \in 1..MaxUuid :
                                LET r == update_avatar(w, "POST", p, uuid)
                                IN /\ Kept(r.site.accounts)
                                   /\ r.resp.status = 400 => Same(r.site.accounts)
           /\ LET a == create_profiles(accounts)
              IN /\ \A uid \in DOMAIN accounts.users :
                        /\ Cardinality(ProfilesOf(a, uid)) = 1
                        /\ ProfilesOf(accounts, uid) # {} =>
                               ProfilesOf(a, uid) = ProfilesOf(accounts, uid)
                 /\ \A i \in DOMAIN accounts.profiles :
                        i \in DOMAIN a.profiles /\ a.profiles[i] = accounts.profiles[i]
                 /\ create_profiles(a) = a

\* C19 as stated: the same, with exactly one Profile after an update-avatar
\* request of any method.  A GET is answered 405 before get_or_create
\* runs, so a User whose Profile had been deleted still has none.
C19_ProfileAfterAnyRequest ==
    /\ C19_ExactlyOneProfile
    /\ last = Idle =>
           \A c \in Clients :
               LET w == Site(accounts, sessions[c], media)
                   uid == sessions[c].user
               IN uid \in DOMAIN accounts.users =>
                      \A m \in Methods, p \in AvatarPosts, uuid \in 1..MaxUuid :
                          Cardinality(ProfilesOf(update_avatar(w, m, p, uuid).site.accounts,
                                                 uid)) = 1

\* C19 witness: a profile-view request of a User whose Profile had been
\* deleted has created it again.
C19_Witness ==
    /\ last.op = "profile" /\ last.status = 200 /\ last.rows = 1
    /\ last.id \in DOMAIN accounts.users
    /\ Cardinality(ProfilesOf(accounts, last.id)) = 1
    /\ accounts.seq.profile > Cardinality(DOMAIN accounts.users)

\* the avatar files in storage that carry the name of user uid
StoredAvatars(w, uid) == {f \in w.media : f.username = w.accounts.users[uid].username}

\* the avatar files the Profile of user uid references
ReferencedAvatars(w, uid) ==
    {w.accounts.profiles[i].avatar : i \in ProfilesOf(w.accounts, uid)} \ {NoFile}

\* C20: with the stored avatar files of a user being exactly the file its
\* Profile references, a successful update-avatar POST of that user keeps
\* it so and leaves the files of the others alone: after an upload the one
\* stored file is the new file, which the response names, and the previous
\* file is gone; after a deletion no file is stored, the Profile has no
\* avatar and avatar_url is absent; a deletion when no avatar is set
\* succeeds and changes nothing.
C20_AvatarFilesMatchProfile ==
    /\ Cardinality(DOMAIN accounts.users) = 0 => media = {}
    /\ last = Idle =>
           \A c \in Clients, p \in AvatarPosts, uuid \in 1..MaxUuid :
               LET w == Site(accounts, sessions[c], media)
                   uid == sessions[c].user
                   r == update_avatar(w, "POST", p, uuid)
                   old == ReferencedAvatars(w, uid)
                   new == ReferencedAvatars(r.site, uid)
               IN (/\ uid \in DOMAIN accounts.users
                   /\ ProfilesOf(accounts, uid) # {}
                   /\ StoredAvatars(w, uid) = old
                   /\ r.resp.json[1]) =>
                      /\ r.resp.status = 200
                      /\ StoredAvatars(r.site, uid) = new
                      /\ r.site.media \ StoredAvatars(r.site, uid)
                             = media \ StoredAvatars(w, uid)
                      /\ p.delete_avatar = "true" =>
                             /\ new = {}
                             /\ r.resp.json[2] = NoFile
                             /\ old = {} => r.site = w
                      /\ p.delete_avatar # "true" =>
                             /\ Cardinality(new) = 1
                             /\ new = {r.resp.json[2]}
                             /\ \A f \in old : f \in new \/ f \notin r.site.media

\* C20 witness: an avatar deletion has removed the one stored file.
C20_Witness ==
    /\ last.op = "update_avatar" /\ last.status = 200 /\ last.rows = 0 - 1
    /\ last.id \in DOMAIN accounts.users
    /\ ProfilesOf(accounts, last.id) # {}
    /\ accounts.profiles[ProfileId(accounts, last.id)].avatar = NoFile
    /\ media = {}

\* C21: every request of a logged-in user to the avatar endpoint is
\* answered with a JSON document carrying success, which is true exactly
\* for status 200: another method than POST gives 405, a POST without
\* delete_avatar=true and without an avatar_cropped value that starts with
\* 'data:image' gives 400, and an avatar_cropped value that cannot be split
\* or decoded gives 500, all three with success false.
C21_AvatarEndpointStructuredResponse ==
    last = Idle =>
        \A c \in Clients, m \in Methods, p \in AvatarPosts, uuid \in 1..MaxUuid :
            LET w == Site(accounts, sessions[c], media)
                resp == update_avatar(w, m, p, uuid).resp
                x == p.avatar_cropped
                image == x # <<>> /\ Head(x) = "data:image"
            IN IsAuthenticated(w) =>
                   /\ Len(resp.json) = 2
                   /\ resp.status \in {200, 400, 405, 500}
                   /\ resp.json[1] <=> resp.status = 200
                   /\ m # "POST" => resp.status = 405
                   /\ (m = "POST" /\ p.delete_avatar # "true" /\ ~image) => resp.status = 400
                   /\ (m = "POST" /\ p.delete_avatar # "true" /\ image
                          /\ (~SplitsInTwo(x) \/ ~Base64Decodes(PayloadPart(x))))
                         => resp.status = 500

\* C21 witness: an upload whose text could not be decoded has been
\* answered 500.
C21_Witness ==
    /\ last.op = "update_avatar" /\ last.status = 500
    /\ last.id \in DOMAIN accounts.users

\* the characters of s that are digits, in their order
RECURSIVE DigitsOf(_)
DigitsOf(s) ==
    IF s = <<>> THEN <<>>
    ELSE IF isdigit(Head(s)) THEN <<Head(s)>> \o DigitsOf(Tail(s))
    ELSE DigitsOf(Tail(s))

\* C22: whatsapp_link of an empty or unset number is absent; of any other
\* number it is 'https://wa.me/' followed by exactly the digits of the
\* number in their order, no '+' and no other character left; the number
\* '+55 11 98765-4321' gives 'https://wa.me/5511987654321'.  This holds of
\* every number a Profile stores.
C22_WhatsappLinkKeepsDigits ==
    /\ \A i \in DOMAIN accounts.profiles :
           LET s == accounts.profiles[i].whatsapp
           IN whatsapp_link(s) = IF s = <<>> THEN NoLink ELSE <<WaMe>> \o DigitsOf(s)
    /\ (last = Idle /\ accounts = EmptyAccounts) =>
           /\ \A s \in WhatsappStrings :
                  /\ whatsapp_link(s) = IF s = <<>> THEN NoLink ELSE <<WaMe>> \o DigitsOf(s)
                  /\ \A k \in 2..Len(whatsapp_link(s)) : isdigit(whatsapp_link(s)[k])
           /\ whatsapp_link(ExampleWhatsapp) =
                  <<WaMe, "5", "5", "1", "1", "9", "8", "7", "6", "5", "4", "3", "2", "1">>

\* C22 witness: a Profile stores a number with a '+', blanks and a dash, and
\* its link has fewer characters than the number.
C22_Witness ==
    \E i \in DOMAIN accounts.profiles :
        LET s == accounts.profiles[i].whatsapp
        IN /\ Positions(s, "+") # {} /\ Positions(s, " ") # {} /\ Positions(s, "-") # {}
           /\ Len(whatsapp_link(s)) < Len(s)
           /\ last.op = "profile" /\ last.status = 302

\* C24: an update-avatar POST with an avatar_cropped value that is answered
\* 500 leaves the avatar the user had: the file is still in storage and the
\* Profile still references it.
C24_FailedUploadKeepsAvatar ==
    last = Idle =>
        \A c \in Clients, p \in AvatarPosts, uuid \in 1..MaxUuid :
            LET w == Site(accounts, sessions[c], media)
                uid == sessions[c].user
                r == update_avatar(w, "POST", p, uuid)
            IN (IsAuthenticated(w) /\ p.avatar_cropped # <<>> /\ r.resp.status = 500) =>
                   \A i \in ProfilesOf(accounts, uid) :
                       LET old == accounts.profiles[i].avatar
                       IN old # NoFile =>
                              /\ r.site.accounts.profiles[i].avatar = old
                              /\ old \in r.site.media

\* the flag a toggle request is about, in a row of its table
FlagOf(q, row) ==
    IF q.op = "notebook_toggle_favorite" THEN row.is_favorite ELSE row.is_pinned

TableOf(q) == IF q.op = "notebook_toggle_favorite" THEN db.notebooks ELSE db.notes

IsToggle(q) == q.op \in {"notebook_toggle_favorite", "note_toggle_pin"}

\* C23: with requests interleaving, a toggle that has written wrote the
\* negation of the flag it had read, whatever was written in between, and
\* its JSON response reports the value it wrote; the stored flag is the
\* value of the toggle whose write came last; of two toggles of the same
\* entity that were both loaded, neither is refused.
C23_InterleavedTogglesLastWriteWins ==
    \A w \in Workers :
        LET q == inflight[w]
        IN (IsToggle(q) /\ q.pc = "done" /\ q.resp.status # 404) =>
               /\ q.at > 0 =>
                      /\ FlagOf(q, q.obj) = ~FlagOf(q, q.read)
                      /\ IF q.xhr THEN q.resp.json = <<TRUE, FlagOf(q, q.obj)>>
                         ELSE q.resp.status = 302
                      /\ (\A v \in Workers \ {w} : inflight[v].at < q.at) =>
                             /\ q.id \in DOMAIN TableOf(q)
                             /\ FlagOf(q, TableOf(q)[q.id]) = FlagOf(q, q.obj)
               /\ \A v \in Workers \ {w} :
                      (inflight[v].op = q.op /\ inflight[v].id = q.id) => q.at > 0

\* C23 witness: two toggle-favorite requests of one notebook have both read
\* the flag before either wrote it; both have answered with the same value,
\* which is the stored one.
C23_Witness ==
    \E w, v \in Workers :
        /\ w # v
        /\ inflight[w].op = "notebook_toggle_favorite" /\ inflight[v].op = inflight[w].op
        /\ inflight[w].id = inflight[v].id
        /\ inflight[w].at = 1 /\ inflight[v].at = 2
        /\ inflight[w].xhr /\ inflight[v].xhr
        /\ inflight[w].read.is_favorite = inflight[v].read.is_favorite
        /\ inflight[w].resp.json = inflight[v].resp.json
        /\ db.notebooks[inflight[w].id].is_favorite = ~inflight[w].read.is_favorite

\* C26: after the delete of a Notebook or Note by its owner has committed,
\* no row with that id is stored, also when a toggle or an edit that had
\* loaded the row before the delete saves it afterwards.
C26_DeletedStaysDeleted ==
    \A w \in Workers :
        LET q == inflight[w]
        IN (q.pc = "done" /\ q.at > 0) =>
               /\ q.op = "notebook_delete" => q.id \notin DOMAIN db.notebooks
               /\ q.op = "note_delete" => q.id \notin DOMAIN db.notes

\* C28: when an edit of a Notebook or Note has committed before a toggle of
\* the same entity writes, and nothing is written after the toggle, the
\* title, the description or content and the color the edit committed are
\* the stored ones once the toggle has completed, also when the toggle had
\* read the entity before the edit committed.
C28_ToggleKeepsCommittedEdit ==
    \A w, v \in Workers :
        LET q == inflight[w]
            e == inflight[v]
        IN (q.pc = "done" /\ e.pc = "done" /\ 0 < e.at /\ e.at < q.at /\ q.id = e.id) =>
               /\ (q.op = "notebook_toggle_favorite" /\ e.op = "notebook_edit") =>
                      /\ db.notebooks[q.id].title = e.obj.title
                      /\ db.notebooks[q.id].description = e.obj.description
                      /\ db.notebooks[q.id].color = e.obj.color
               /\ (q.op = "note_toggle_pin" /\ e.op = "note_edit") =>
                      /\ db.notes[q.id].title = e.obj.title
                      /\ db.notes[q.id].content = e.obj.content

\* C27: every stored Note references a stored Notebook, with requests
\* interleaving too; when a delete of the Notebook has committed while a
\* note-create request under it was in flight, no Note of that Notebook is
\* stored once both are done.
C27_NotesReferenceNotebooks ==
    /\ \A i \in DOMAIN db.notes : db.notes[i].notebook \in DOMAIN db.notebooks
    /\ \A w, v \in Workers :
           LET q == inflight[w]
               x == inflight[v]
           IN (q.op = "note_create" /\ q.pc = "done" /\ x.op = "notebook_delete"
                 /\ x.pc = "done" /\ x.at > 0 /\ x.id = q.id) =>
                  \A i \in DOMAIN db.notes : db.notes[i].notebook # q.id

\* C27 witness: a note-create request had looked its notebook up, the delete
\* of the notebook committed, and the save of the note failed.
C27_Witness ==
    \E w, v \in Workers :
        /\ inflight[w].op = "note_create" /\ inflight[w].pc = "done"
        /\ inflight[w].resp.status = 500
        /\ inflight[v].op = "notebook_delete" /\ inflight[v].at > 0
        /\ inflight[v].id = inflight[w].id
        /\ inflight[w].id \notin DOMAIN db.notebooks

\* C29: when two tag-create requests of one user with the same new name
\* have both passed the duplicate check before either inserted, and both
\* are done, one Tag row of that name and user is stored, neither request
\* ended in a server error, and one was answered as created and the other
\* as already existing.
C29_ConcurrentTagCreateHandled ==
    \A w, v \in Workers :
        LET q == inflight[w]
            x == inflight[v]
        IN (w # v /\ q.op = "tag_create" /\ x.op = "tag_create"
              /\ q.pc = "done" /\ x.pc = "done"
              /\ "name" \in DOMAIN q.obj /\ "name" \in DOMAIN x.obj
              /\ q.user = x.user /\ q.obj.name = x.obj.name) =>
               /\ Cardinality(ExistingTag(db, q.obj.name, q.user)) = 1
               /\ q.resp.status # 500 /\ x.resp.status # 500
               /\ {q.resp.msg, x.resp.msg} = {"success", "info"}

\* C25: when a profile-update request and an update-avatar request of one
\* user have interleaved and both have succeeded, with no request left in
\* flight, the avatar the Profile row references, if any, is a file in
\* storage, and every file in storage is referenced by a Profile row.
C25_AvatarReferenceConsistent ==
    (/\ \A w \in Workers : inflight[w].pc = "done"
     /\ \E w, v \in Workers :
            /\ inflight[w].op = "profile" /\ inflight[w].resp.status = 302
            /\ inflight[v].op \in {"avatar_delete", "avatar_upload"}
            /\ inflight[v].resp.status = 200) =>
        /\ \A i \in DOMAIN accounts.profiles :
               accounts.profiles[i].avatar # NoFile => accounts.profiles[i].avatar \in media
        /\ \A f \in media :
               \E i \in DOMAIN accounts.profiles : accounts.profiles[i].avatar = f

\* the owner of every Notebook, Note and Tag of the store d, and the parent
\* Notebook of every Note
Owners(d) ==
    [notebooks |-> [i \in DOMAIN d.notebooks |-> d.notebooks[i].user],
     notes |-> [i \in DOMAIN d.notes |-> <<d.notes[i].user, d.notes[i].notebook>>],
     tags |-> [i \in DOMAIN d.tags |-> d.tags[i].user]]

\* the store after is the store before with the rows new added, every one of
\* them owned by u, and no owner or parent notebook of an old row changed
BoundTo(before, after, u) ==
    LET o == Owners(before)
        n == Owners(after)
    IN /\ \A i \in DOMAIN o.notebooks : i \in DOMAIN n.notebooks /\ n.notebooks[i] = o.notebooks[i]
       /\ \A i \in DOMAIN o.notes : i \in DOMAIN n.notes /\ n.notes[i] = o.notes[i]
       /\ \A i \in DOMAIN o.tags : i \in DOMAIN n.tags /\ n.tags[i] = o.tags[i]
       /\ \A i \in DOMAIN n.notebooks \ DOMAIN o.notebooks : n.notebooks[i] = u
       /\ \A i \in DOMAIN n.notes \ DOMAIN o.notes :
              n.notes[i][1] = u /\ Owned(before.notebooks, n.notes[i][2], u)
       /\ \A i \in DOMAIN n.tags \ DOMAIN o.tags : n.tags[i] = u

\* create binds the owner to the acting user whatever the client submits,
\* and edit, toggle, add-tag and remove-tag change no owner and no parent
OwnersKept ==
    \A u \in Users, m \in Methods, user \in Users, notebook \in NotebookIds :
        /\ \A f \in NotebookForms :
               /\ BoundTo(db, NotebookCreateView(db, now, u, m,
                                                 Submitted(f, user, notebook)).db, u)
               /\ \A id \in NotebookIds :
                      Owners(NotebookUpdateView(db, now, u, m, id,
                                                Submitted(f, user, notebook)).db)
                          = Owners(db)
        /\ \A f \in NoteForms :
               /\ \A id \in NotebookIds :
                      LET r == NoteCreateView(db, now, u, m, id,
                                              Submitted(f, user, notebook))
                      IN /\ BoundTo(db, r.db, u)
                         /\ \A i \in DOMAIN r.db.notes \ DOMAIN db.notes :
                                r.db.notes[i].notebook = id
               /\ \A id \in NoteIds :
                      Owners(NoteUpdateView(db, now, u, m, id,
                                            Submitted(f, user, notebook)).db)
                          = Owners(db)
        /\ \A f \in TagForms :
               BoundTo(db, TagCreateView(db, now, u, m, Submitted(f, user, notebook)).db, u)
        /\ \A xhr \in BOOLEAN, id \in NotebookIds :
               Owners(NotebookToggleFavoriteView(db, now, u, m, xhr, id).db) = Owners(db)
        /\ \A xhr \in BOOLEAN, id \in NoteIds :
               Owners(NoteTogglePinView(db, now, u, m, xhr, id).db) = Owners(db)
        /\ \A id \in NoteIds, p \in TagIdParams :
               Owners(NoteAddTagView(db, now, u, m, id, p).db) = Owners(db)
        /\ \A id \in NoteIds, tag \in TagIds :
               Owners(NoteRemoveTagView(db, now, u, m, id, tag).db) = Owners(db)

\* C30 as claimed: create binds the owner of a new Notebook, Note or Tag to
\* the acting user whatever owner-like fields the client submits, no edit,
\* toggle, add-tag or remove-tag changes an owner or the parent Notebook of
\* a Note, and a note edit changes the title and the content of the note and
\* nothing else.
C30_NoteEditChangesOnlyTitleContent ==
    last = Idle =>
        /\ OwnersKept
        /\ \A u \in Users : \A id \in OwnedIds(db.notes, u), f \in NoteForms :
               LET after == NoteUpdateView(db, now, u, "POST", id, f).db
               IN after = [db EXCEPT !.notes[id].title = after.notes[id].title,
                                     !.notes[id].content = after.notes[id].content]

\* C30: create binds the owner of a new Notebook, Note or Tag to the acting
\* user whatever owner-like fields the client submits, no edit, toggle,
\* add-tag or remove-tag changes an owner or the parent Notebook of a Note,
\* and a note edit changes the title, the content and the updated timestamp
\* of the note, which it sets to the time of the call, and nothing else.
C30_OwnerBoundAndKept ==
    last = Idle =>
        /\ OwnersKept
        /\ \A u \in Users : \A id \in OwnedIds(db.notes, u), f \in NoteForms :
               LET after == NoteUpdateView(db, now, u, "POST", id, f).db
               IN after = [db EXCEPT !.notes[id].title = after.notes[id].title,
                                     !.notes[id].content = after.notes[id].content,
                                     !.notes[id].updated_at =
                                         IF NoteFormValid(f) THEN now ELSE @]

\* C30 witness: a note has been edited by its owner some time after it was
\* created, in a store where another user owns a notebook.
C30_Witness ==
    /\ last.op = "note_edit" /\ last.status = 302
    /\ last.id \in DOMAIN db.notes
    /\ db.notes[last.id].user = last.user
    /\ db.notes[last.id].title = <<"M">>
    /\ db.notes[last.id].updated_at > db.notes[last.id].created_at
    /\ \E i \in DOMAIN db.notebooks : db.notebooks[i].user # last.user

====
